---------------------------- MODULE Spec2Model ----------------------------
(***************************************************************************)
(* Model of src/main.ts (second revision of the plugin, lines 1855-4390):  *)
(* the GravityGraph store (nodes, links and the per-node maps) and the     *)
(* GraphView identity resolver (path <-> unique id) with its live-update   *)
(* handlers.                                                               *)
(*                                                                         *)
(* Objects are modelled by handles: a PhysicsMesh is a number in           *)
(* 1..MaxMeshes, `meshes` holds the fields of every mesh that is still     *)
(* referenced, and the maps of the program (Map<K, V>) are TLA+ functions  *)
(* whose DOMAIN is the key set.  A path is the sequence of its components  *)
(* (folders, then the basename; the ".md" extension is left out), so that  *)
(* path.split('/') is the path itself.  Unique ids are strings, built by   *)
(* the same concatenations as the template literals of the source.         *)
(***************************************************************************)
EXTENDS Integers, Sequences, FiniteSets, TLC

(***************************************************************************)
(* Bounds of the model.                                                    *)
(***************************************************************************)
MaxMeshes == 3      \* PhysicsMesh objects alive at the same time
MaxCalls == 3       \* calls the host makes to the store after loading
MaxFiles == 3       \* TFile objects the vault creates in a run
MaxInitialFiles == 1 \* notes in the vault when the view opens
MaxEvents == 2      \* vault events delivered to an open view
MaxTicks == 3       \* frames of the animation loop in a run

(***************************************************************************)
(* Generic map helpers (Map.set, Map.delete, Map.get(k) || d).             *)
(***************************************************************************)
Put(f, k, v) == [x \in (DOMAIN f) \cup {k} |-> IF x = k THEN v ELSE f[x]]

Del(f, k) == [x \in (DOMAIN f) \ {k} |-> f[x]]

GetOr(f, k, d) == IF k \in DOMAIN f THEN f[k] ELSE d

EmptyMap == [x \in {} |-> 0]

Range(s) == {s[i] : i \in DOMAIN s}

(***************************************************************************)
(* Values.                                                                 *)
(***************************************************************************)
NoPath == << >>                 \* filePath === undefined
Zero3 == <<0, 0, 0>>            \* new THREE.Vector3(0, 0, 0)
White == <<255, 255, 255>>      \* 0xffffff

\* The ids the host passes to the store when it calls it directly.
StoreIds == {"x", "y", "z"}

\* The file path the host passes to the store with an id: the note of that
\* name in folder "a".
StorePath(uniqueId) == <<"a", uniqueId>>

\* Outcomes of (Math.random() - 0.5) * spread for a position, in 1/Unit.
RandomPositions == {<<2, 0, 0>>, <<-1, 1, 0>>, <<0, -1, 3>>}

\* Outcomes of (Math.random() - 0.5) * 0.1 for a velocity, in 1/Unit.
RandomVelocities == {<<1, 0, 0>>}

\* Outcomes of Math.random() * Math.PI * 2 for the phase of a colour pulse.
Phases == {0, 1}

Inherited == << >>              \* a folder colour of 'inherited'

\* Lengths, speeds and forces are fixed-point numbers: Unit stands for 1.0,
\* so a component of 2 is 0.0002.
Unit == 10000

\* DEFAULT_SETTINGS.forces, and forces with the sliders of repulsion and
\* link strength at their minimum (0.01 and 0).
DefaultForces == [repulsion |-> 8000, friction |-> 500,
                  centerAttraction |-> 10, linkStrength |-> 300]

WeakForces == [repulsion |-> 100, friction |-> 500,
               centerAttraction |-> 10, linkStrength |-> 0]

\* The settings records the plugin holds: the colours, the forces, the
\* maximum speed (2.0 and 0.1), the freeze policy and the particle settings
\* of DEFAULT_SETTINGS (a count, and two durations in milliseconds).
SettingsDark == [defaultNodeColor |-> <<0, 0, 0>>,
                 folderColors |-> (<<"a">> :> <<255, 0, 0>>),
                 forces |-> DefaultForces, maxSpeed |-> 20000,
                 freeze |-> FALSE, maxParticles |-> 500,
                 particlesSpawnRate |-> 2000, particlesShuffleDelay |-> 10]

SettingsLight == [defaultNodeColor |-> <<255, 255, 255>>,
                  folderColors |-> (<<"a">> :> Inherited),
                  forces |-> WeakForces, maxSpeed |-> 1000,
                  freeze |-> TRUE, maxParticles |-> 500,
                  particlesSpawnRate |-> 2000, particlesShuffleDelay |-> 10]

SettingsValues == {SettingsDark, SettingsLight}

\* currentSettings === null
NoSettings == [defaultNodeColor |-> << >>, folderColors |-> << >>]


(***************************************************************************)
(* State.                                                                  *)
(***************************************************************************)
VARIABLES
    \* GravityGraph
    nodes,              \* Map<string, PhysicsMesh>: unique id -> mesh handle
    meshes,             \* the PhysicsMesh objects: handle -> fields
    links,              \* Array<{from, to, line}>: sequence of [from, to]
    nodeFilePaths,      \* Map<string, string>: unique id -> file path
    colorPulseData,     \* Map<string, {...}>: unique id -> pulse record
    labels,             \* Map<string, HTMLElement>: the ids having a label
    nodeToUniqueId,     \* Map<PhysicsMesh, string>: mesh handle -> unique id
    currentSettings,    \* PluginSettings | null
    forces,             \* {repulsion, friction, centerAttraction, linkStrength}
    maxSpeed,
    freeze,             \* the freeze policy
    frozenNodes,        \* Set<string>: the ids of the frozen nodes
    isRunning,
    animationId,        \* number | null: 0 is null
    animationFrames,    \* the requestAnimationFrame callbacks of animate
                        \* that are pending, by id
    particleSystem,     \* LinkParticleSystem
    \* GraphView
    pathToUniqueId,     \* Map<string, string>: path -> unique id
    uniqueIdToPath,     \* Map<string, string>: unique id -> path
    nodeNameCounter,    \* Map<string, number>: basename -> count
    previousLinks,      \* Map<string, string[]>: path -> link targets
    gravityGraph,       \* whether this.gravityGraph is set
    allFiles,           \* TFile[]: the notes to add gradually
    allLinks,           \* Array<[string, string]>: the links to add gradually
    currentNodeIndex,
    currentLinkIndex,
    timer,              \* the pending timeout of the loading chain
    cachePending,       \* initializeLinkCache() has been called, not run
    reading,            \* onNewNoteCreated calls suspended at vault.read
    \* The vault
    files,              \* the TFile objects: handle -> path
    vault,              \* the handles of the notes that exist
    content,            \* handle -> the link targets of the note's text
    \* The window: the handler on the JavaScript stack, the time since the
    \* last frame of the render loop, and whether the view has been closed
    runtime,
    \* History: the last call made with its arguments, the store as it was
    \* before that call, and the number of calls made so far
    lastOp,
    prev,
    prevIds,
    calls

graphVars == <<nodes, meshes, links, nodeFilePaths, colorPulseData, labels,
               nodeToUniqueId, currentSettings, forces, maxSpeed, freeze,
               frozenNodes, isRunning, animationId, animationFrames,
               particleSystem>>

idVars == <<pathToUniqueId, uniqueIdToPath, nodeNameCounter>>

viewVars == <<idVars, previousLinks, gravityGraph, allFiles, allLinks,
              currentNodeIndex, currentLinkIndex, timer, cachePending,
              reading>>

vaultVars == <<files, vault, content>>

\* The GravityGraph object as one value, as the methods below read and
\* return it.
Graph == [nodes |-> nodes, meshes |-> meshes, links |-> links,
          nodeFilePaths |-> nodeFilePaths, colorPulseData |-> colorPulseData,
          labels |-> labels, nodeToUniqueId |-> nodeToUniqueId,
          currentSettings |-> currentSettings, forces |-> forces,
          maxSpeed |-> maxSpeed, freeze |-> freeze,
          frozenNodes |-> frozenNodes, isRunning |-> isRunning,
          animationId |-> animationId, animationFrames |-> animationFrames,
          particleSystem |-> particleSystem]

\* new LinkParticleSystem(scene): no particle in flight and a pool of
\* DefaultMaxParticles idle slots.  The pool is kept as the number of its
\* meshes and the set of the indices of the visible ones.  Durations are in
\* milliseconds; `lastSpawn` is kept as the time elapsed since it, up to
\* SpawnCap, and starts there because performance.now() counts from the load
\* of the page.  particlesDelay is undefined until it is set, and a timeout
\* with a delay that is not a number is one of 0 ms.  `timeouts` are the
\* setTimeout callbacks of update that are pending, in the order of their
\* creation: the link each will spawn on, the delay it was given and what
\* remains of it.
DefaultMaxParticles == 5000

SpawnCap == 3000

NewParticleSystem ==
    [particles |-> << >>,
     particlePool |-> [size |-> DefaultMaxParticles, visible |-> {}],
     maxParticles |-> DefaultMaxParticles, spawnRate |-> 1000,
     lastSpawn |-> SpawnCap, particlesDelay |-> 0, timeouts |-> << >>]

\* The GravityGraph object after its constructor.
NewGraph == [nodes |-> EmptyMap, meshes |-> EmptyMap, links |-> << >>,
             nodeFilePaths |-> EmptyMap, colorPulseData |-> EmptyMap,
             labels |-> {}, nodeToUniqueId |-> EmptyMap,
             currentSettings |-> NoSettings, forces |-> DefaultForces,
             maxSpeed |-> 20000, freeze |-> FALSE, frozenNodes |-> {},
             isRunning |-> FALSE, animationId |-> 0, animationFrames |-> {},
             particleSystem |-> NewParticleSystem]

\* this := G
SetGraph(G) ==
    /\ nodes' = G.nodes
    /\ meshes' = G.meshes
    /\ links' = G.links
    /\ nodeFilePaths' = G.nodeFilePaths
    /\ colorPulseData' = G.colorPulseData
    /\ labels' = G.labels
    /\ nodeToUniqueId' = G.nodeToUniqueId
    /\ currentSettings' = G.currentSettings
    /\ forces' = G.forces
    /\ maxSpeed' = G.maxSpeed
    /\ freeze' = G.freeze
    /\ frozenNodes' = G.frozenNodes
    /\ isRunning' = G.isRunning
    /\ animationId' = G.animationId
    /\ animationFrames' = G.animationFrames
    /\ particleSystem' = G.particleSystem

\* No handler is on the stack.
Idle == [op |-> "none"]

\* The window when the view opens.
NewWindow == [running |-> Idle, lastTime |-> 0, closed |-> FALSE]

\* The three maps of the identity resolver as one value.
Ids == [pathToUniqueId |-> pathToUniqueId, uniqueIdToPath |-> uniqueIdToPath,
        nodeNameCounter |-> nodeNameCounter]

NewIds == [pathToUniqueId |-> EmptyMap, uniqueIdToPath |-> EmptyMap,
           nodeNameCounter |-> EmptyMap]

SetIds(I) ==
    /\ pathToUniqueId' = I.pathToUniqueId
    /\ uniqueIdToPath' = I.uniqueIdToPath
    /\ nodeNameCounter' = I.nodeNameCounter

\* The GraphView object after its constructor, but for gravityGraph.
NewView ==
    /\ pathToUniqueId = EmptyMap
    /\ uniqueIdToPath = EmptyMap
    /\ nodeNameCounter = EmptyMap
    /\ previousLinks = EmptyMap
    /\ allFiles = << >>
    /\ allLinks = << >>
    /\ currentNodeIndex = 0
    /\ currentLinkIndex = 0
    /\ cachePending = FALSE
    /\ reading = {}

(***************************************************************************)
(* Mesh objects.  A mesh is referenced while it is a value of `nodes`, an  *)
(* endpoint of a link, a key of `nodeToUniqueId` or an endpoint of the     *)
(* link object held by a particle or by a pending spawn timeout; the       *)
(* fields of unreferenced meshes are dropped and their handle may be used  *)
(* for the next `new PhysicsMesh`.                                         *)
(***************************************************************************)
Referenced(G) ==
    LET ps == G.particleSystem
    IN  Range(G.nodes) \cup (DOMAIN G.nodeToUniqueId)
            \cup {G.links[i].from : i \in DOMAIN G.links}
            \cup {G.links[i].to : i \in DOMAIN G.links}
            \cup {ps.particles[i].link.from : i \in DOMAIN ps.particles}
            \cup {ps.particles[i].link.to : i \in DOMAIN ps.particles}
            \cup {ps.timeouts[i].link.from : i \in DOMAIN ps.timeouts}
            \cup {ps.timeouts[i].link.to : i \in DOMAIN ps.timeouts}

FreeMeshes(G) == (1..MaxMeshes) \ Referenced(G)

NewMesh(G) == CHOOSE m \in FreeMeshes(G) : \A n \in FreeMeshes(G) : m <= n

Collect(G) == [G EXCEPT !.meshes = [m \in (DOMAIN @) \cap Referenced(G) |-> @[m]]]

(***************************************************************************)
(* Colours.  A colour is <<R, G, B>> with components in 0..255.            *)
(***************************************************************************)
\* getFolderHierarchy(folderPath).reverse(): the folders of a path from the
\* deepest to the shallowest, each the sequence of its components.
getFolderHierarchy(folderPath) ==
    [i \in 1..Len(folderPath) |-> SubSeq(folderPath, 1, Len(folderPath) + 1 - i)]

RECURSIVE FirstFolderColor(_, _, _)
FirstFolderColor(hierarchy, i, settings) ==
    IF i > Len(hierarchy) THEN settings.defaultNodeColor
    ELSE IF /\ hierarchy[i] \in DOMAIN settings.folderColors
            /\ settings.folderColors[hierarchy[i]] # Inherited
         THEN settings.folderColors[hierarchy[i]]
         ELSE FirstFolderColor(hierarchy, i + 1, settings)

getNodeColorForFile(filePath, settings) ==
    LET folderPath == SubSeq(filePath, 1, Len(filePath) - 1)
    IN  IF folderPath = << >> THEN settings.defaultNodeColor
        ELSE FirstFolderColor(getFolderHierarchy(folderPath), 1, settings)

getNodeColor(G, uniqueId) ==
    IF G.currentSettings = NoSettings THEN White
    ELSE IF uniqueId \notin DOMAIN G.nodeFilePaths
         THEN G.currentSettings.defaultNodeColor
         ELSE getNodeColorForFile(G.nodeFilePaths[uniqueId], G.currentSettings)

\* The multiplier in thousandths: 10 * (max(0, 0.85 - L) / 0.85)^2 with
\* L = 0.299 r + 0.587 g + 0.114 b, r = R/255.
calculateBrightnessMultiplier(baseColor) ==
    LET brightness == (299 * baseColor[1] + 587 * baseColor[2]
                          + 114 * baseColor[3]) \div 255
        dark == IF 850 - brightness > 0 THEN 850 - brightness ELSE 0
    IN  (dark * dark * 4) \div 289

NewPulse(phase, nodeColor) ==
    [phase |-> phase, baseColor |-> nodeColor,
     emissiveStrenghtMultiplier |-> calculateBrightnessMultiplier(nodeColor)]


(***************************************************************************)
(* GravityGraph: the store's methods, each a function from the object and  *)
(* the arguments to the object after the call.                             *)
(***************************************************************************)
removeLabelForNode(G, uniqueId) ==
    IF uniqueId \in G.labels
    THEN [G EXCEPT !.labels = @ \ {uniqueId}]
    ELSE G

\* `phase` is the outcome of Math.random() for the pulse.
addNode(G, uniqueId, filePath, phase) ==
    LET G1 == IF filePath # NoPath
              THEN [G EXCEPT !.nodeFilePaths = Put(@, uniqueId, filePath)]
              ELSE G
        nodeColor == getNodeColor(G1, uniqueId)
        mesh == NewMesh(G)
    IN  [G1 EXCEPT
            !.meshes = Put(@, mesh, [position |-> Zero3, velocity |-> Zero3,
                                     force |-> Zero3, color |-> nodeColor,
                                     scale |-> Unit]),
            !.nodes = Put(@, uniqueId, mesh),
            !.nodeToUniqueId = Put(@, mesh, uniqueId),
            !.colorPulseData = Put(@, uniqueId, NewPulse(phase, nodeColor))]

\* updateNodeColors building a fresh force vector for every node.
updateNodeColors_ResetForce(G, settings) ==
    LET G1 == [G EXCEPT !.currentSettings = settings]
    IN  [G1 EXCEPT
            !.meshes = [m \in DOMAIN @ |->
                IF \E id \in DOMAIN G.nodes : G.nodes[id] = m
                THEN LET id == CHOOSE id \in DOMAIN G.nodes : G.nodes[id] = m
                     IN  [@[m] EXCEPT !.color = getNodeColor(G1, id),
                                      !.force = Zero3]
                ELSE @[m]],
            !.colorPulseData = [id \in DOMAIN @ |->
                IF id \in DOMAIN G.nodes
                THEN NewPulse(@[id].phase, getNodeColor(G1, id))
                ELSE @[id]]]

updateNodeColors(G, settings) ==
    LET G1 == [G EXCEPT !.currentSettings = settings]
    IN  [G1 EXCEPT
            !.meshes = [m \in DOMAIN @ |->
                IF \E id \in DOMAIN G.nodes : G.nodes[id] = m
                THEN LET id == CHOOSE id \in DOMAIN G.nodes : G.nodes[id] = m
                     IN  [@[m] EXCEPT !.color = getNodeColor(G1, id)]
                ELSE @[m]],
            !.colorPulseData = [id \in DOMAIN @ |->
                IF id \in DOMAIN G.nodes
                THEN NewPulse(@[id].phase, getNodeColor(G1, id))
                ELSE @[id]]]

LinkJoins(link, a, b) ==
    \/ (link.from = a /\ link.to = b)
    \/ (link.from = b /\ link.to = a)

\* addLink with a duplicate check that looks at one direction only.
addLink_OneDirection(G, fromUniqueId, toUniqueId) ==
    IF fromUniqueId \notin DOMAIN G.nodes \/ toUniqueId \notin DOMAIN G.nodes
    THEN G
    ELSE LET fromMesh == G.nodes[fromUniqueId]
             toMesh == G.nodes[toUniqueId]
             linkExists == \E i \in DOMAIN G.links :
                               G.links[i].from = fromMesh /\ G.links[i].to = toMesh
         IN  IF linkExists THEN G
             ELSE [G EXCEPT !.links = Append(@, [from |-> fromMesh, to |-> toMesh])]

\* addLink with a guard that looks at the first endpoint only: a missing
\* second endpoint is stored as undefined (handle 0).
addLink_FromGuardOnly(G, fromUniqueId, toUniqueId) ==
    IF fromUniqueId \notin DOMAIN G.nodes
    THEN G
    ELSE LET fromMesh == G.nodes[fromUniqueId]
             toMesh == GetOr(G.nodes, toUniqueId, 0)
             linkExists == \E i \in DOMAIN G.links :
                               \/ (G.links[i].from = fromMesh /\ G.links[i].to = toMesh)
                               \/ (G.links[i].from = toMesh /\ G.links[i].to = fromMesh)
         IN  IF linkExists THEN G
             ELSE [G EXCEPT !.links = Append(@, [from |-> fromMesh, to |-> toMesh])]

addLink(G, fromUniqueId, toUniqueId) ==
    IF fromUniqueId \notin DOMAIN G.nodes \/ toUniqueId \notin DOMAIN G.nodes
    THEN G
    ELSE LET fromMesh == G.nodes[fromUniqueId]
             toMesh == G.nodes[toUniqueId]
             linkExists == \E i \in DOMAIN G.links :
                               LinkJoins(G.links[i], fromMesh, toMesh)
         IN  IF linkExists THEN G
             ELSE [G EXCEPT !.links = Append(@, [from |-> fromMesh, to |-> toMesh])]

\* Every random position is drawn by `place`, a function from the ids of
\* the nodes to positions.
initializePositions(G, place) ==
    [G EXCEPT !.meshes = [m \in DOMAIN @ |->
        IF \E id \in DOMAIN G.nodes : G.nodes[id] = m
        THEN LET id == CHOOSE id \in DOMAIN G.nodes : G.nodes[id] = m
             IN  [@[m] EXCEPT !.position = place[id]]
        ELSE @[m]]]

hasNode(G, uniqueId) == uniqueId \in DOMAIN G.nodes

Touches(link, node) == link.from = node \/ link.to = node

\* removeNode with a cascade that looks at the `from` endpoint only.
removeNode_FromOnly(G, uniqueId) ==
    IF uniqueId \notin DOMAIN G.nodes THEN G
    ELSE LET node == G.nodes[uniqueId]
             G1 == [G EXCEPT
                       !.links = SelectSeq(@, LAMBDA link : link.from # node),
                       !.nodes = Del(@, uniqueId),
                       !.nodeToUniqueId = Del(@, node),
                       !.colorPulseData = Del(@, uniqueId),
                       !.nodeFilePaths = Del(@, uniqueId)]
         IN  Collect(removeLabelForNode(G1, uniqueId))

removeNode(G, uniqueId) ==
    IF uniqueId \notin DOMAIN G.nodes THEN G
    ELSE LET node == G.nodes[uniqueId]
             G1 == [G EXCEPT
                       !.links = SelectSeq(@, LAMBDA link : ~Touches(link, node)),
                       !.nodes = Del(@, uniqueId),
                       !.nodeToUniqueId = Del(@, node),
                       !.colorPulseData = Del(@, uniqueId),
                       !.nodeFilePaths = Del(@, uniqueId)]
         IN  Collect(removeLabelForNode(G1, uniqueId))

\* findIndex: the first index whose link joins the two nodes, 0 for -1.
findLinkIndex(G, fromNode, toNode) ==
    IF \E i \in DOMAIN G.links : LinkJoins(G.links[i], fromNode, toNode)
    THEN CHOOSE i \in DOMAIN G.links :
            /\ LinkJoins(G.links[i], fromNode, toNode)
            /\ \A j \in 1..(i - 1) : ~LinkJoins(G.links[j], fromNode, toNode)
    ELSE 0

\* Array.splice(index, 1)
Splice(seq, index) == SubSeq(seq, 1, index - 1) \o SubSeq(seq, index + 1, Len(seq))

\* removeLink that finds the link in the direction of its arguments only.
removeLink_OneDirection(G, fromUniqueId, toUniqueId) ==
    IF fromUniqueId \notin DOMAIN G.nodes \/ toUniqueId \notin DOMAIN G.nodes
    THEN G
    ELSE LET fromNode == G.nodes[fromUniqueId]
             toNode == G.nodes[toUniqueId]
             hit == {i \in DOMAIN G.links :
                        G.links[i].from = fromNode /\ G.links[i].to = toNode}
         IN  IF hit # {}
             THEN [G EXCEPT !.links = Splice(@, CHOOSE i \in hit : \A j \in hit : i <= j)]
             ELSE G

removeLink(G, fromUniqueId, toUniqueId) ==
    IF fromUniqueId \notin DOMAIN G.nodes \/ toUniqueId \notin DOMAIN G.nodes
    THEN G
    ELSE LET linkIndex == findLinkIndex(G, G.nodes[fromUniqueId], G.nodes[toUniqueId])
         IN  IF linkIndex # 0
             THEN [G EXCEPT !.links = Splice(@, linkIndex)]
             ELSE G

renameNode(G, oldUniqueId, newUniqueId, newFilePath) ==
    IF oldUniqueId \notin DOMAIN G.nodes THEN G
    ELSE LET node == G.nodes[oldUniqueId]
             G1 == [G EXCEPT !.nodes = Put(Del(@, oldUniqueId), newUniqueId, node)]
             G2 == IF oldUniqueId \in DOMAIN G1.colorPulseData
                   THEN [G1 EXCEPT !.colorPulseData =
                            Put(Del(@, oldUniqueId), newUniqueId, @[oldUniqueId])]
                   ELSE G1
             G3 == [G2 EXCEPT !.nodeFilePaths = Del(@, oldUniqueId)]
             G4 == IF newFilePath # NoPath
                   THEN [G3 EXCEPT !.nodeFilePaths = Put(@, newUniqueId, newFilePath)]
                   ELSE G3
         IN  removeLabelForNode(G4, oldUniqueId)


(***************************************************************************)
(* THREE.Vector3 in fixed point.  A product of two fixed-point numbers and *)
(* a quotient are rounded towards zero; a squared length is kept in units  *)
(* of 1/Unit^2, so that lengthSq() is exact.                               *)
(***************************************************************************)
Abs(a) == IF a < 0 THEN -a ELSE a

\* a / b rounded towards zero, for b > 0.
Quot(a, b) == IF a < 0 THEN -((-a) \div b) ELSE a \div b

\* The fixed-point product a * s, computed in two parts to stay within
\* the integers of the checker.
Times(a, s) ==
    LET x == Abs(a)
        y == Abs(s)
        product == x * (y \div Unit) + (x * (y % Unit)) \div Unit
    IN  IF (a < 0) # (s < 0) THEN -product ELSE product

\* The fixed-point quotient a / s.
Over(a, s) == Quot(a * Unit, s)

\* Math.sqrt of a number of 1/Unit^2, in 1/Unit: the largest r with
\* r * r <= n, found by bisection between lo and hi.
RECURSIVE SqrtBetween(_, _, _)
SqrtBetween(n, lo, hi) ==
    IF hi - lo <= 1 THEN lo
    ELSE LET mid == (lo + hi) \div 2
         IN  IF mid * mid <= n THEN SqrtBetween(n, mid, hi)
             ELSE SqrtBetween(n, lo, mid)

Sqrt(n) == SqrtBetween(n, 0, 46341)

add(v, w) == <<v[1] + w[1], v[2] + w[2], v[3] + w[3]>>

sub(v, w) == <<v[1] - w[1], v[2] - w[2], v[3] - w[3]>>

negate(v) == <<-v[1], -v[2], -v[3]>>

lengthSq(v) == v[1] * v[1] + v[2] * v[2] + v[3] * v[3]

length(v) == Sqrt(lengthSq(v))

distanceTo(v, w) == length(sub(v, w))

multiplyScalar(v, s) == <<Times(v[1], s), Times(v[2], s), Times(v[3], s)>>

\* divideScalar(this.length() || 1)
normalize(v) ==
    LET l == IF length(v) = 0 THEN Unit ELSE length(v)
    IN  <<Over(v[1], l), Over(v[2], l), Over(v[3], l)>>

(***************************************************************************)
(* GravityGraph: the physics tick.                                         *)
(***************************************************************************)
Epsilon == 1000                \* 0.1: no repulsion below this distance
IdealDistance == 25000         \* 2.5
VelocityTreshold == 10         \* velocityTreshold = 0.001
MinFrictionSpeedSq == 10000    \* 0.0001: no friction at or below it
Camera == <<0, 0, 150000>>     \* camera.position.z = 15
MaxVisibleDistance == 150000   \* settings.maxVisibleDistance = 15

\* The pairs (nodeArray[i], nodeArray[j]) with i < j; the node array is
\* taken in the order of the handles.
NodePairs(G) == {p \in Range(G.nodes) \X Range(G.nodes) : p[1] < p[2]}

\* The vector the repulsion loop computes for the pair (nodeA, nodeB).
RepulsionDirection(G, nodeA, nodeB) ==
    LET distance == distanceTo(G.meshes[nodeA].position,
                               G.meshes[nodeB].position)
        repulsionForce == Over(G.forces.repulsion, Times(distance, distance))
    IN  multiplyScalar(
            normalize(sub(G.meshes[nodeA].position,
                          G.meshes[nodeB].position)),
            repulsionForce)

\* The repulsion loop adding nodeB's share with the sign of nodeA's.
RECURSIVE RepulsionPass_SameSign(_, _, _)
RepulsionPass_SameSign(G, M, pairs) ==
    IF pairs = {} THEN M
    ELSE LET p == CHOOSE q \in pairs : TRUE
             distance == distanceTo(G.meshes[p[1]].position,
                                    G.meshes[p[2]].position)
             direction == RepulsionDirection(G, p[1], p[2])
             M1 == [M EXCEPT ![p[1]].force = add(@, direction)]
             M2 == [M1 EXCEPT ![p[2]].force = add(@, direction)]
         IN  RepulsionPass_SameSign(G, IF distance < Epsilon THEN M ELSE M2,
                                    pairs \ {p})

\* The repulsion loop with an epsilon of 0.01.
RECURSIVE RepulsionPass_SmallEpsilon(_, _, _)
RepulsionPass_SmallEpsilon(G, M, pairs) ==
    IF pairs = {} THEN M
    ELSE LET p == CHOOSE q \in pairs : TRUE
             distance == distanceTo(G.meshes[p[1]].position,
                                    G.meshes[p[2]].position)
             direction == RepulsionDirection(G, p[1], p[2])
             M1 == [M EXCEPT ![p[1]].force = add(@, direction)]
             M2 == [M1 EXCEPT ![p[2]].force = sub(@, direction)]
         IN  RepulsionPass_SmallEpsilon(G, IF distance < 100 THEN M ELSE M2,
                                        pairs \ {p})

\* The repulsion loop over `pairs`, on the meshes M: the positions are
\* read from G, the forces accumulate in M.
RECURSIVE RepulsionPass(_, _, _)
RepulsionPass(G, M, pairs) ==
    IF pairs = {} THEN M
    ELSE LET p == CHOOSE q \in pairs : TRUE
             distance == distanceTo(G.meshes[p[1]].position,
                                    G.meshes[p[2]].position)
             direction == RepulsionDirection(G, p[1], p[2])
             M1 == [M EXCEPT ![p[1]].force = add(@, direction)]
             M2 == [M1 EXCEPT ![p[2]].force = sub(@, direction)]
         IN  RepulsionPass(G, IF distance < Epsilon THEN M ELSE M2,
                           pairs \ {p})

\* The first loop of calculateForces: the force of every node reset.
ResetForces(G) ==
    [m \in DOMAIN G.meshes |->
        IF m \in Range(G.nodes) THEN [G.meshes[m] EXCEPT !.force = Zero3]
        ELSE G.meshes[m]]

\* What the loop over the links adds to the force of link.from; the force
\* of link.to gets the negation.
SpringPair(G, link) ==
    LET from == G.meshes[link.from].position
        to == G.meshes[link.to].position
        springForce == Times(distanceTo(from, to) - IdealDistance,
                             G.forces.linkStrength)
    IN  multiplyScalar(normalize(sub(to, from)), springForce)

\* The loop over the links, from link i on, on the meshes M.
RECURSIVE Springs(_, _, _)
Springs(G, M, i) ==
    IF i > Len(G.links) THEN M
    ELSE LET link == G.links[i]
             direction == SpringPair(G, link)
             M1 == [M EXCEPT ![link.from].force = add(@, direction)]
             M2 == [M1 EXCEPT ![link.to].force = sub(@, direction)]
         IN  Springs(G, M2, i + 1)

CenterForce(G, m) ==
    multiplyScalar(G.meshes[m].position, -G.forces.centerAttraction)

\* The last loop of calculateForces, on the meshes M.
CenterPass(G, M) ==
    [m \in DOMAIN M |->
        IF m \in Range(G.nodes)
        THEN [M[m] EXCEPT !.force = add(@, CenterForce(G, m))]
        ELSE M[m]]

\* calculateForces: only the forces change, every pass reads the positions
\* of G.
calculateForces(G) ==
    [G EXCEPT !.meshes =
        CenterPass(G, Springs(G, RepulsionPass(G, ResetForces(G),
                                               NodePairs(G)), 1))]


\* A squared length, kept in 1/Unit^2, as a fixed-point number.
ToFixed(squared) == Quot(squared, Unit)

Max(a, b) == IF a > b THEN a ELSE b

\* velocityTreshold * velocityTreshold, in 1/Unit^2.
FreezeThreshold == VelocityTreshold * VelocityTreshold

\* The friction step of updateAllNodes.
applyFriction(G, velocity) ==
    LET speedSq == lengthSq(velocity)
        speed == Sqrt(speedSq)
        frictionMagnitude == Times(G.forces.friction, ToFixed(speedSq))
        frictionScale == Unit - Over(frictionMagnitude, speed)
    IN  IF G.forces.friction > 0 /\ speedSq > MinFrictionSpeedSq
        THEN multiplyScalar(velocity, Max(0, frictionScale))
        ELSE velocity

\* The max speed step left out.
enforceMaxSpeed_Off(G, velocity) == velocity

\* The max speed step of updateAllNodes.
enforceMaxSpeed(G, velocity) ==
    IF length(velocity) > G.maxSpeed
    THEN multiplyScalar(normalize(velocity), G.maxSpeed)
    ELSE velocity

\* The bound under which the squared force of a slow node lets it freeze,
\* and the bound over which the squared force of a frozen node releases it.
enterForceBound == FreezeThreshold * 100
leaveForceBound == FreezeThreshold * 100

\* The condition under which an integrated node is frozen.
shouldFreeze(G, velocity, force) ==
    /\ G.freeze
    /\ lengthSq(velocity) < FreezeThreshold
    /\ lengthSq(force) < enterForceBound

\* The condition under which a frozen node is released.
shouldUnfreeze(force) == lengthSq(force) > leaveForceBound

\* Step 1 of the loop without the test of isFrozen.
integrate_FrozenToo(G, uniqueId) ==
    LET node == G.meshes[G.nodes[uniqueId]]
        moving == enforceMaxSpeed(G, applyFriction(G, add(node.velocity,
                                                          node.force)))
        velocity == IF lengthSq(moving) < FreezeThreshold
                       /\ (~G.freeze \/ shouldFreeze(G, moving, node.force))
                    THEN Zero3 ELSE moving
    IN  [node EXCEPT
            !.velocity = velocity,
            !.force = IF shouldFreeze(G, moving, node.force)
                      THEN Zero3 ELSE @,
            !.position = add(@, velocity)]

\* Step 1 of the loop of updateAllNodes for one node: its mesh after it.
integrate(G, uniqueId) ==
    LET node == G.meshes[G.nodes[uniqueId]]
        moving == enforceMaxSpeed(G, applyFriction(G, add(node.velocity,
                                                          node.force)))
        velocity == IF lengthSq(moving) < FreezeThreshold
                       /\ (~G.freeze \/ shouldFreeze(G, moving, node.force))
                    THEN Zero3 ELSE moving
    IN  IF uniqueId \in G.frozenNodes THEN node
        ELSE [node EXCEPT
                 !.velocity = velocity,
                 !.force = IF shouldFreeze(G, moving, node.force)
                           THEN Zero3 ELSE @,
                 !.position = add(@, velocity)]

\* frozenNodes after the loop of updateAllNodes.
frozenAfter(G) ==
    LET integrated(id) ==
            enforceMaxSpeed(G, applyFriction(G,
                add(G.meshes[G.nodes[id]].velocity,
                    G.meshes[G.nodes[id]].force)))
        frozenNow == {id \in DOMAIN G.nodes \ G.frozenNodes :
                         shouldFreeze(G, integrated(id),
                                      G.meshes[G.nodes[id]].force)}
        released == {id \in DOMAIN G.nodes \cap G.frozenNodes :
                        shouldUnfreeze(G.meshes[G.nodes[id]].force)}
    IN  (G.frozenNodes \cup frozenNow) \ released

\* baseNodeScale and linkScaleMultiplier of DEFAULT_SETTINGS, which every
\* settings record of the model keeps.
BaseNodeScale == Unit
LinkScaleMultiplier == 1000

\* The advance of a pulse phase in one frame (speed * 0.016), in the unit
\* of Phases.
PulseStep == 1

\* nodeConnectionCounts of updateAllNodes: the number of link ends at the
\* node, over the links whose two ends are in nodeToUniqueId.
RECURSIVE connectionCount(_, _, _)
connectionCount(G, uniqueId, i) ==
    IF i > Len(G.links) THEN 0
    ELSE LET fromUniqueId == GetOr(G.nodeToUniqueId, G.links[i].from, "")
             toUniqueId == GetOr(G.nodeToUniqueId, G.links[i].to, "")
             counted == fromUniqueId # "" /\ toUniqueId # ""
         IN  (IF counted /\ fromUniqueId = uniqueId THEN 1 ELSE 0)
             + (IF counted /\ toUniqueId = uniqueId THEN 1 ELSE 0)
             + connectionCount(G, uniqueId, i + 1)

calcLinkScale(count) ==
    IF count <= 1 THEN Unit
    ELSE BaseNodeScale + count * LinkScaleMultiplier

\* shouldBeVisible of updateAllNodes for the camera of onOpen, which looks
\* at the origin from Camera: the node is in front of the camera and
\* |position - Camera| <= MaxVisibleDistance.  With |Camera| equal to
\* MaxVisibleDistance the comparison is |position|^2 <= 2 z |Camera|.
shouldBeVisible(position) ==
    IF position[3] <= 0 THEN position = Zero3
    ELSE /\ position[3] < Camera[3]
         /\ (lengthSq(position) + position[3] - 1) \div position[3]
                <= 2 * Camera[3]

\* updateAllNodes: the single loop over the nodes (integration, freeze
\* policy, pulse, scale, label) and the cleanup of the labels.
updateAllNodes(G) ==
    LET after(uniqueId) == integrate(G, uniqueId)
    IN  [G EXCEPT
            !.meshes = [m \in DOMAIN @ |->
                IF \E id \in DOMAIN G.nodes : G.nodes[id] = m
                THEN LET id == CHOOSE id \in DOMAIN G.nodes : G.nodes[id] = m
                     IN  [after(id) EXCEPT
                             !.scale = calcLinkScale(connectionCount(G, id, 1))]
                ELSE @[m]],
            !.frozenNodes = frozenAfter(G),
            !.colorPulseData = [id \in DOMAIN @ |->
                IF id \in DOMAIN G.nodes
                THEN [@[id] EXCEPT !.phase = @ + PulseStep]
                ELSE @[id]],
            !.labels = {id \in DOMAIN G.nodes :
                           shouldBeVisible(after(id).position)}]

\* requestAnimationFrame(() => this.animate(camera)): the callback is
\* pending under a fresh id, which animate stores in animationId.
requestAnimationFrame(G) ==
    [G EXCEPT !.animationId = @ + 1,
              !.animationFrames = @ \cup {G.animationId + 1}]

\* A frame that moves the nodes before it computes the forces.
animate_MoveFirst(G) ==
    IF ~G.isRunning THEN G
    ELSE requestAnimationFrame(calculateForces(updateAllNodes(G)))

\* A frame that does not look at isRunning.
animate_AlwaysRuns(G) ==
    requestAnimationFrame(updateAllNodes(calculateForces(G)))

\* animate: one frame.
animate(G) ==
    IF ~G.isRunning THEN G
    ELSE requestAnimationFrame(updateAllNodes(calculateForces(G)))

\* start: the loop is switched on and runs its first frame.
start(G) == animate([G EXCEPT !.isRunning = TRUE])

\* stop: the loop is switched off and the frame it has requested last is
\* cancelled.
stop(G) ==
    [G EXCEPT !.isRunning = FALSE,
              !.animationFrames = IF G.animationId # 0
                                  THEN @ \ {G.animationId} ELSE @]

(***************************************************************************)
(* The particle flow system (LinkParticleSystem).  Progress is a           *)
(* fixed-point number with ProgressUnit for 1.0; a speed is in thousandths *)
(* per second and a deltaTime in milliseconds, so that their product is in *)
(* the unit of progress.  The position and the scale of a particle's mesh  *)
(* are functions of its link and its progress (updateParticlePosition) and *)
(* are not kept.                                                           *)
(***************************************************************************)
ProgressUnit == 1000000

\* particlePool.find(p => !p.visible): the first idle slot, 0 for undefined.
find(pool) ==
    LET idle == (1..pool.size) \ pool.visible
    IN  IF idle = {} THEN 0
        ELSE CHOOSE s \in idle : \A t \in idle : s <= t

\* clearParticles
clearParticles(PS) ==
    [PS EXCEPT !.particlePool.visible = {}, !.particles = << >>]

\* dispose
dispose(PS) ==
    [clearParticles(PS) EXCEPT !.particlePool = [size |-> 0, visible |-> {}]]

\* initializeParticlePool without the call of dispose.
initializeParticlePool_NoDispose(PS) ==
    [PS EXCEPT !.particlePool.size = PS.maxParticles]

\* initializeParticlePool
initializeParticlePool(PS) ==
    [dispose(PS) EXCEPT !.particlePool = [size |-> PS.maxParticles,
                                          visible |-> {}]]

\* spawnParticle that takes the first slot of the pool, idle or not.
spawnParticle_FirstSlot(PS, link, speed) ==
    IF Len(PS.particles) >= PS.maxParticles THEN PS
    ELSE LET availableParticle == IF PS.particlePool.size > 0 THEN 1 ELSE 0
         IN  IF availableParticle = 0 THEN PS
             ELSE [PS EXCEPT
                      !.particlePool.visible = @ \cup {availableParticle},
                      !.particles = Append(@, [mesh |-> availableParticle,
                                               link |-> link,
                                               progress |-> 0,
                                               speed |-> speed,
                                               direction |-> 1])]

\* spawnParticle(link), `speed` being the outcome of 0.3 + Math.random() * 0.4.
spawnParticle(PS, link, speed) ==
    IF Len(PS.particles) >= PS.maxParticles THEN PS
    ELSE LET availableParticle == find(PS.particlePool)
         IN  IF availableParticle = 0 THEN PS
             ELSE [PS EXCEPT
                      !.particlePool.visible = @ \cup {availableParticle},
                      !.particles = Append(@, [mesh |-> availableParticle,
                                               link |-> link,
                                               progress |-> 0,
                                               speed |-> speed,
                                               direction |-> 1])]

\* A spawn cycle whose timeouts all have a delay of 0.
SpawnCycle_NoStagger(PS, shuffledLinks) ==
    [k \in 1..Len(shuffledLinks) |->
        [link |-> shuffledLinks[k], delay |-> 0, remaining |-> 0]]

\* The timeouts one spawn cycle creates: one per link of the shuffled order,
\* the one of index k (from 0) with a delay of k * particlesDelay.
SpawnCycle(PS, shuffledLinks) ==
    [k \in 1..Len(shuffledLinks) |->
        [link |-> shuffledLinks[k],
         delay |-> (k - 1) * PS.particlesDelay,
         remaining |-> (k - 1) * PS.particlesDelay]]

\* A particle that stays where it is.
Advance_Still(particle, deltaTime) == particle

\* A particle after `deltaTime` of travel.
Advance(particle, deltaTime) ==
    [particle EXCEPT
        !.progress = @ + particle.speed * deltaTime * particle.direction]

\* The test of update for the retirement of a particle.
Arrived(particle) ==
    particle.direction = 1 /\ particle.progress >= ProgressUnit

InFlight(particle) == ~Arrived(particle)

\* update that drops the particles that arrived without hiding their
\* meshes.
update_NoHide(PS, deltaTime, shuffledLinks) ==
    LET spawn == PS.lastSpawn > PS.spawnRate /\ Len(shuffledLinks) > 0
        PS1 == IF spawn
               THEN [PS EXCEPT
                        !.timeouts = @ \o SpawnCycle(PS, shuffledLinks),
                        !.lastSpawn = 0]
               ELSE PS
        moved == [i \in DOMAIN PS1.particles |->
                     Advance(PS1.particles[i], deltaTime)]
    IN  [PS1 EXCEPT !.particles = SelectSeq(moved, InFlight)]

\* update(deltaTime, links), `shuffledLinks` being the outcome of the sort
\* with a random comparator.
update(PS, deltaTime, shuffledLinks) ==
    LET spawn == PS.lastSpawn > PS.spawnRate /\ Len(shuffledLinks) > 0
        PS1 == IF spawn
               THEN [PS EXCEPT
                        !.timeouts = @ \o SpawnCycle(PS, shuffledLinks),
                        !.lastSpawn = 0]
               ELSE PS
        moved == [i \in DOMAIN PS1.particles |->
                     Advance(PS1.particles[i], deltaTime)]
        retired == {moved[i].mesh : i \in {j \in DOMAIN moved :
                                              Arrived(moved[j])}}
    IN  [PS1 EXCEPT !.particles = SelectSeq(moved, InFlight),
                    !.particlePool.visible = @ \ retired]

\* The links as updateParticles hands them to update: fresh objects with
\* the endpoints of each link.
linkData(G) == [i \in DOMAIN G.links |->
                   [from |-> G.links[i].from, to |-> G.links[i].to]]

\* GravityGraph.updateParticles
updateParticles(G, deltaTime, shuffledLinks) ==
    [G EXCEPT !.particleSystem = update(@, deltaTime, shuffledLinks)]

\* GravityGraph.setParticleSpawnRate -> setSpawnRate
setParticleSpawnRate(G, rate) ==
    [G EXCEPT !.particleSystem.spawnRate = rate]

\* setMaxParticles that keeps the pool and the particles in flight.
setMaxParticles_KeepPool(G, maxParticles) ==
    [G EXCEPT !.particleSystem.maxParticles = maxParticles]

\* GravityGraph.setMaxParticles -> LinkParticleSystem.setMaxParticles
setMaxParticles(G, maxParticles) ==
    [G EXCEPT !.particleSystem =
        initializeParticlePool([@ EXCEPT !.maxParticles = maxParticles])]

\* GravityGraph.setParticlesShuffleDelay
setParticlesShuffleDelay(G, delay) ==
    [G EXCEPT !.particleSystem.particlesDelay = delay]

\* The particle settings as updateSettingsParameters applies them.
particleSettings(G, settings) ==
    setParticlesShuffleDelay(
        setParticleSpawnRate(setMaxParticles(G, settings.maxParticles),
                             settings.particlesSpawnRate),
        settings.particlesShuffleDelay)

\* The passing of `ms` milliseconds: the pending timeouts come closer and
\* the last spawn cycle lies further back.
Min(a, b) == IF a < b THEN a ELSE b

elapse(PS, ms) ==
    [PS EXCEPT !.lastSpawn = Min(@ + ms, SpawnCap),
               !.timeouts = [i \in DOMAIN @ |->
                                [@[i] EXCEPT !.remaining = Max(@ - ms, 0)]]]

\* updateSettingsParameters without the clearing of the frozen set.
updateSettingsParameters_KeepFrozen(G, settings) ==
    particleSettings(
        updateNodeColors([G EXCEPT !.forces = settings.forces,
                                   !.maxSpeed = settings.maxSpeed,
                                   !.freeze = settings.freeze],
                         settings),
        settings)

\* updateSettingsParameters, on a view that has its gravityGraph.
updateSettingsParameters(G, settings) ==
    particleSettings(
        updateNodeColors([G EXCEPT !.forces = settings.forces,
                                   !.maxSpeed = settings.maxSpeed,
                                   !.freeze = settings.freeze,
                                   !.frozenNodes = IF ~settings.freeze
                                                   THEN {} ELSE @],
                         settings),
        settings)


(***************************************************************************)
(* The store driven directly by its host: every public method of           *)
(* GravityGraph called with arguments drawn from StoreIds.  A run starts   *)
(* from the store as the gradual loading of a vault leaves it              *)
(* (startNodeAddition: addNode, then a random position and velocity, for   *)
(* each note), for every set of notes; the host's calls follow.            *)
(***************************************************************************)
vars == <<graphVars, viewVars, vaultVars, runtime, lastOp, prev, prevIds,
          calls>>

Op(op, a, b, path) == [op |-> op, a |-> a, b |-> b, path |-> path]

\* The placement of a node the host has just added (startNodeAddition): a
\* random position and a random initial velocity.
placeNode(G, uniqueId, position, velocity) ==
    IF uniqueId \notin DOMAIN G.nodes THEN G
    ELSE [G EXCEPT !.meshes[G.nodes[uniqueId]].position = position,
                   !.meshes[G.nodes[uniqueId]].velocity = velocity]

\* The random outcomes of the loading, one per note.
LoadedPosition(uniqueId) ==
    CASE uniqueId = "x" -> <<2, 0, 0>>
      [] uniqueId = "y" -> <<-1, 1, 0>>
      [] OTHER -> <<0, -1, 3>>

LoadedVelocity == <<1, 0, 0>>

RECURSIVE Loaded(_)
Loaded(ids) ==
    IF ids = {} THEN NewGraph
    ELSE LET id == CHOOSE i \in ids : TRUE
             G == Loaded(ids \ {id})
         IN  placeNode(addNode(G, id, StorePath(id), 0), id,
                       LoadedPosition(id), LoadedVelocity)

StoreInit ==
    /\ \E ids \in SUBSET StoreIds :
          /\ Cardinality(ids) <= MaxMeshes
          /\ nodes = Loaded(ids).nodes
          /\ meshes = Loaded(ids).meshes
          /\ links = Loaded(ids).links
          /\ nodeFilePaths = Loaded(ids).nodeFilePaths
          /\ colorPulseData = Loaded(ids).colorPulseData
          /\ labels = Loaded(ids).labels
          /\ nodeToUniqueId = Loaded(ids).nodeToUniqueId
          /\ currentSettings = Loaded(ids).currentSettings
          /\ forces = Loaded(ids).forces
          /\ maxSpeed = Loaded(ids).maxSpeed
          /\ freeze = Loaded(ids).freeze
          /\ frozenNodes = Loaded(ids).frozenNodes
          /\ isRunning = Loaded(ids).isRunning
          /\ animationId = Loaded(ids).animationId
          /\ animationFrames = Loaded(ids).animationFrames
          /\ particleSystem = Loaded(ids).particleSystem
          /\ prev = Loaded(ids)
    /\ NewView
    /\ gravityGraph = TRUE
    /\ timer = "none"
    /\ files = << >> /\ vault = {} /\ content = << >>
    /\ runtime = NewWindow
    /\ lastOp = Op("new", "", "", NoPath)
    /\ prevIds = NewIds
    /\ calls = 0

\* One call of the host: the store becomes G, and the history records the
\* call and the store before it.
Call(op, G) ==
    /\ calls < MaxCalls
    /\ calls' = calls + 1
    /\ prev' = Graph
    /\ lastOp' = op
    /\ SetGraph(G)
    /\ UNCHANGED <<viewVars, vaultVars, runtime, prevIds>>

AddNode(uniqueId, filePath, phase) ==
    /\ FreeMeshes(Graph) # {}
    /\ Call(Op("addNode", uniqueId, "", filePath),
            addNode(Graph, uniqueId, filePath, phase))

PlaceNode(uniqueId, position, velocity) ==
    /\ uniqueId \in DOMAIN nodes
    /\ Call(Op("placeNode", uniqueId, "", NoPath),
            placeNode(Graph, uniqueId, position, velocity))

AddLink(fromUniqueId, toUniqueId) ==
    Call(Op("addLink", fromUniqueId, toUniqueId, NoPath),
         addLink(Graph, fromUniqueId, toUniqueId))

RemoveNode(uniqueId) ==
    Call(Op("removeNode", uniqueId, "", NoPath), removeNode(Graph, uniqueId))

RemoveLink(fromUniqueId, toUniqueId) ==
    Call(Op("removeLink", fromUniqueId, toUniqueId, NoPath),
         removeLink(Graph, fromUniqueId, toUniqueId))

RenameNode(oldUniqueId, newUniqueId, newFilePath) ==
    Call(Op("renameNode", oldUniqueId, newUniqueId, newFilePath),
         renameNode(Graph, oldUniqueId, newUniqueId, newFilePath))

StoreNext ==
    \/ \E id \in StoreIds, phase \in Phases : AddNode(id, StorePath(id), phase)
    \/ \E id \in StoreIds, p \in RandomPositions, v \in RandomVelocities :
          PlaceNode(id, p, v)
    \/ \E a \in StoreIds, b \in StoreIds : AddLink(a, b)
    \/ \E id \in StoreIds : RemoveNode(id)
    \/ \E a \in StoreIds, b \in StoreIds : RemoveLink(a, b)
    \/ \E old \in StoreIds, new \in StoreIds, withPath \in BOOLEAN :
          RenameNode(old, new, IF withPath THEN StorePath(new) ELSE NoPath)

StoreSpec == StoreInit /\ [][StoreNext]_vars

(***************************************************************************)
(* Claims about the store (checked under StoreSpec).                       *)
(***************************************************************************)
Live(G, uniqueId) == uniqueId \in DOMAIN G.nodes

Position(G, uniqueId) == G.meshes[G.nodes[uniqueId]].position

Velocity(G, uniqueId) == G.meshes[G.nodes[uniqueId]].velocity

\* The links of G that have the node stored under uniqueId as an endpoint.
LinksTouching(G, uniqueId) ==
    {i \in DOMAIN G.links : Touches(G.links[i], G.nodes[uniqueId])}

\* The number of links of G that are not removed by `gone`.
Kept(G, gone(_)) == Cardinality({i \in DOMAIN G.links : ~gone(G.links[i])})

\* C2: calling addNode with an id that is already in the store leaves the
\* observable state as it was: the node map, the node's position and
\* velocity, the per-node maps and the links touching the node of that id.
C2_AddNodeTwiceSameAsOnce ==
    (lastOp.op = "addNode" /\ Live(prev, lastOp.a)) =>
        /\ DOMAIN nodes = DOMAIN prev.nodes
        /\ Position(Graph, lastOp.a) = Position(prev, lastOp.a)
        /\ Velocity(Graph, lastOp.a) = Velocity(prev, lastOp.a)
        /\ nodeFilePaths = prev.nodeFilePaths
        /\ colorPulseData = prev.colorPulseData
        /\ labels = prev.labels
        /\ LinksTouching(Graph, lastOp.a) = LinksTouching(prev, lastOp.a)

C4_RemoveNodeCascades ==
    (lastOp.op = "removeNode" /\ Live(prev, lastOp.a)) =>
        LET node == prev.nodes[lastOp.a]
            gone(link) == Touches(link, node)
        IN  /\ ~Live(Graph, lastOp.a)
            /\ \A i \in DOMAIN links : ~gone(links[i])
            /\ \A i \in DOMAIN prev.links :
                  ~gone(prev.links[i]) => prev.links[i] \in Range(links)
            /\ Len(links) = Kept(prev, gone)
            /\ \A other \in (DOMAIN prev.nodes) \ {lastOp.a} :
                  /\ Live(Graph, other)
                  /\ nodes[other] = prev.nodes[other]
                  /\ Position(Graph, other) = Position(prev, other)
                  /\ Velocity(Graph, other) = Velocity(prev, other)

\* removeNode has removed a node with two links, one as `from` and one as
\* `to`, and two moving nodes are left.
C4_Witness ==
    /\ lastOp.op = "removeNode"
    /\ Live(prev, lastOp.a)
    /\ \E i \in DOMAIN prev.links : \E j \in DOMAIN prev.links :
          /\ prev.links[i].from = prev.nodes[lastOp.a]
          /\ prev.links[j].to = prev.nodes[lastOp.a]
          /\ i # j
    /\ Cardinality(DOMAIN nodes) = 2
    /\ \A id \in DOMAIN nodes : Velocity(Graph, id) # Zero3

\* The id updateAllNodes attributes a link endpoint to ("" for undefined).
EndpointId(G, node) == GetOr(G.nodeToUniqueId, node, "")

\* C5: renameNode(oldId, newId) on a live node leaves the node's position and
\* velocity unchanged, and every link that touched oldId reports newId as
\* that endpoint afterwards.
C5_RenameKeepsKinematicsAndLinks ==
    (lastOp.op = "renameNode" /\ Live(prev, lastOp.a) /\ lastOp.a # lastOp.b) =>
        LET node == prev.nodes[lastOp.a]
        IN  /\ Live(Graph, lastOp.b)
            /\ nodes[lastOp.b] = node
            /\ Position(Graph, lastOp.b) = Position(prev, lastOp.a)
            /\ Velocity(Graph, lastOp.b) = Velocity(prev, lastOp.a)
            /\ links = prev.links
            /\ \A i \in DOMAIN links :
                  /\ links[i].from = node => EndpointId(Graph, links[i].from) = lastOp.b
                  /\ links[i].to = node => EndpointId(Graph, links[i].to) = lastOp.b

\* C6: after renameNode(oldId, newId, newPath?) on a live node, the pulse
\* data, the file path and the label of the node are held under newId, and
\* nothing of them remains under oldId.
C6_RenameMovesKeyedMaps ==
    (lastOp.op = "renameNode" /\ Live(prev, lastOp.a) /\ lastOp.a # lastOp.b) =>
        /\ lastOp.a \in DOMAIN prev.colorPulseData =>
              /\ lastOp.b \in DOMAIN colorPulseData
              /\ colorPulseData[lastOp.b] = prev.colorPulseData[lastOp.a]
        /\ lastOp.a \in DOMAIN prev.nodeFilePaths =>
              /\ lastOp.b \in DOMAIN nodeFilePaths
              /\ nodeFilePaths[lastOp.b] =
                    (IF lastOp.path # NoPath THEN lastOp.path
                     ELSE prev.nodeFilePaths[lastOp.a])
        /\ lastOp.a \in prev.labels => lastOp.b \in labels
        /\ lastOp.a \notin DOMAIN colorPulseData
        /\ lastOp.a \notin DOMAIN nodeFilePaths
        /\ lastOp.a \notin labels

\* C7: addLink and removeLink with an endpoint that is not in the node map,
\* removeNode and renameNode with an id that is not in the node map, leave
\* the store unchanged.
C7_UnknownIdIgnored ==
    /\ (lastOp.op \in {"addLink", "removeLink"}
          /\ (~Live(prev, lastOp.a) \/ ~Live(prev, lastOp.b))) => Graph = prev
    /\ (lastOp.op \in {"removeNode", "renameNode"} /\ ~Live(prev, lastOp.a))
          => Graph = prev

\* addLink has been called with one endpoint in the store and one not, on a
\* store that holds a link.
C7_Witness ==
    /\ lastOp.op = "addLink"
    /\ Live(prev, lastOp.a)
    /\ ~Live(prev, lastOp.b)
    /\ prev.links # << >>

\* C8: removeLink(a, b) removes the link between a and b whichever way it
\* was created, removes nothing else, and changes nothing when there is no
\* such link.
C8_RemoveLinkEitherDirection ==
    (lastOp.op = "removeLink" /\ Live(prev, lastOp.a) /\ Live(prev, lastOp.b)) =>
        LET gone(link) == LinkJoins(link, prev.nodes[lastOp.a], prev.nodes[lastOp.b])
        IN  /\ \A i \in DOMAIN links : ~gone(links[i])
            /\ \A i \in DOMAIN prev.links :
                  ~gone(prev.links[i]) => prev.links[i] \in Range(links)
            /\ Len(links) = Kept(prev, gone)
            /\ [Graph EXCEPT !.links = << >>] = [prev EXCEPT !.links = << >>]

\* removeLink(a, b) has been called on a store holding the link b -> a and
\* another link, which is still there.
C8_Witness ==
    /\ lastOp.op = "removeLink"
    /\ lastOp.a # lastOp.b
    /\ Live(prev, lastOp.a) /\ Live(prev, lastOp.b)
    /\ \E i \in DOMAIN prev.links :
          prev.links[i] = [from |-> prev.nodes[lastOp.b], to |-> prev.nodes[lastOp.a]]
    /\ Len(prev.links) = 2
    /\ Len(links) = 1


(***************************************************************************)
(* GraphView: the identity resolver.                                       *)
(***************************************************************************)
\* The paths a note may have: the same basename at the root and in two
\* folders that are both named "a", a note whose own name has the form of
\* a disambiguated id, and a second basename.
ViewPaths == {<<"x">>, <<"a", "x">>, <<"b", "a", "x">>, <<"x (a)">>, <<"y">>}

\* file.basename
Basename(path) == path[Len(path)]

\* path.split('/').slice(-2, -1)[0] || 'root'
folderName(path) == IF Len(path) >= 2 THEN path[Len(path) - 1] ELSE "root"

\* The while loop of generateUniqueNodeId: the first of uniqueId,
\* `${uniqueId} 1`, `${uniqueId} 2`, ... that is no key of uniqueIdToPath.
RECURSIVE FreeTestId(_, _, _, _)
FreeTestId(I, uniqueId, testId, counter) ==
    IF testId \in DOMAIN I.uniqueIdToPath
    THEN FreeTestId(I, uniqueId, uniqueId \o " " \o ToString(counter),
                    counter + 1)
    ELSE testId

\* What generateUniqueNodeId stores once it has chosen the id.
Register(I, basename, path, count, uniqueId) ==
    [pathToUniqueId |-> Put(I.pathToUniqueId, path, uniqueId),
     uniqueIdToPath |-> Put(I.uniqueIdToPath, uniqueId, path),
     nodeNameCounter |-> Put(I.nodeNameCounter, basename, count + 1)]

\* generateUniqueNodeId without the early return for a registered path.
generateUniqueNodeId_NoPathCheck(I, basename, path) ==
    LET count == GetOr(I.nodeNameCounter, basename, 0)
        formatted == basename \o " (" \o folderName(path) \o ")"
        uniqueId == IF count = 0 THEN basename
                    ELSE FreeTestId(I, formatted, formatted, 1)
    IN  [uniqueId |-> uniqueId,
         ids |-> Register(I, basename, path, count, uniqueId)]

\* The returned id and the maps after the call.
generateUniqueNodeId(I, basename, path) ==
    IF path \in DOMAIN I.pathToUniqueId
    THEN [uniqueId |-> I.pathToUniqueId[path], ids |-> I]
    ELSE LET count == GetOr(I.nodeNameCounter, basename, 0)
             formatted == basename \o " (" \o folderName(path) \o ")"
             uniqueId == IF count = 0 THEN basename
                         ELSE FreeTestId(I, formatted, formatted, 1)
         IN  [uniqueId |-> uniqueId,
              ids |-> Register(I, basename, path, count, uniqueId)]

\* this.pathToUniqueId.get(path) || null; "" stands for null (and is falsy
\* as an id too).
getUniqueIdFromPath(I, path) == GetOr(I.pathToUniqueId, path, "")

(***************************************************************************)
(* The vault as the handlers see it.                                       *)
(***************************************************************************)
Files == 1..MaxFiles

NoFile == 0

\* The link targets a note's text may hold, as extractLinks returns them.
ContentValues == {<< >>, <<"x">>, <<"y">>}

\* vault.getMarkdownFiles(): the existing notes, in the order of creation.
RECURSIVE getMarkdownFiles(_)
getMarkdownFiles(existing) ==
    IF existing = {} THEN << >>
    ELSE LET last == CHOOSE f \in existing : \A g \in existing : g <= f
         IN  Append(getMarkdownFiles(existing \ {last}), last)

\* metadataCache.getFirstLinkpathDest(linkpath, sourcePath): the existing
\* note with that basename, the one with the shortest path if there are
\* several; NoFile if there is none.
getFirstLinkpathDest(F, existing, linkpath) ==
    LET matches == {f \in existing : Basename(F[f]) = linkpath}
    IN  IF matches = {} THEN NoFile
        ELSE CHOOSE f \in matches : \A g \in matches :
                 \/ Len(F[f]) < Len(F[g])
                 \/ (Len(F[f]) = Len(F[g]) /\ f <= g)

(***************************************************************************)
(* GraphView: opening the view and loading the graph gradually.            *)
(***************************************************************************)
Includes(seq, x) == \E i \in DOMAIN seq : seq[i] = x

\* The inner loop of onOpen over the resolved links of one note.
RECURSIVE collectFileLinks(_, _, _, _, _)
collectFileLinks(acc, F, existing, uniqueId, targets) ==
    IF targets = << >> THEN acc
    ELSE LET targetFile == getFirstLinkpathDest(F, existing, Head(targets))
             r == generateUniqueNodeId(acc.ids, Basename(F[targetFile]),
                                       F[targetFile])
             acc1 == IF targetFile = NoFile THEN acc
                     ELSE [ids |-> r.ids,
                           links |-> Append(acc.links,
                                            <<uniqueId, r.uniqueId>>)]
         IN  collectFileLinks(acc1, F, existing, uniqueId, Tail(targets))

\* The loop of onOpen over the notes of the vault: an id for every note
\* and for every link target, and the list of links.
RECURSIVE collectLinks(_, _, _, _, _)
collectLinks(acc, F, existing, text, fs) ==
    IF fs = << >> THEN acc
    ELSE LET file == Head(fs)
             r == generateUniqueNodeId(acc.ids, Basename(F[file]), F[file])
         IN  collectLinks(
                 collectFileLinks([acc EXCEPT !.ids = r.ids], F, existing,
                                  r.uniqueId, text[file]),
                 F, existing, text, Tail(fs))

\* One handler or callback of the view: the store becomes G and the
\* resolver I, and the history records the step and the state before it.
Handle(op, G, I) ==
    /\ prev' = Graph
    /\ prevIds' = Ids
    /\ lastOp' = op
    /\ SetGraph(G)
    /\ SetIds(I)
    /\ UNCHANGED runtime

Skip(op) == Handle(op, Graph, Ids)

loadVars == <<allFiles, allLinks, currentNodeIndex, currentLinkIndex>>

OnOpen ==
    /\ timer = "onOpen"
    /\ LET fs == getMarkdownFiles(vault)
           acc == collectLinks([ids |-> Ids, links |-> << >>], files, vault,
                               content, fs)
       IN  /\ Handle(Op("onOpen", "", "", NoPath), Graph, acc.ids)
           /\ allFiles' = fs
           /\ allLinks' = acc.links
    /\ timer' = "scene"
    /\ cachePending' = TRUE
    /\ UNCHANGED <<previousLinks, gravityGraph, currentNodeIndex,
                   currentLinkIndex, reading, vaultVars, calls>>

\* initializeLinkCache, once its reads have completed.
RECURSIVE cacheLinks(_, _, _, _)
cacheLinks(cache, F, text, fs) ==
    IF fs = << >> THEN cache
    ELSE cacheLinks(Put(cache, F[Head(fs)], text[Head(fs)]), F, text, Tail(fs))

InitializeLinkCache ==
    /\ cachePending
    /\ cachePending' = FALSE
    /\ previousLinks' = cacheLinks(previousLinks, files, content,
                                   getMarkdownFiles(vault))
    /\ Skip(Op("initializeLinkCache", "", "", NoPath))
    /\ UNCHANGED <<gravityGraph, loadVars, timer, reading, vaultVars, calls>>

\* The callback of the 100 ms timeout of onOpen: the GravityGraph is
\* created, the stored settings are applied (updateSettingsParameters) and
\* the node addition is scheduled.
SceneReady(settings) ==
    /\ timer = "scene"
    /\ timer' = "startNodeAddition"
    /\ gravityGraph' = TRUE
    /\ Handle(Op("scene", "", "", NoPath),
              start(updateSettingsParameters(NewGraph, settings)), Ids)
    /\ UNCHANGED <<previousLinks, loadVars, cachePending, reading, vaultVars,
                   calls>>

\* addNextNode of startNodeAddition, called by it and then by its own
\* timeout.
AddNextNode(phase, position, velocity) ==
    /\ timer \in {"startNodeAddition", "addNextNode"}
    /\ IF currentNodeIndex < Len(allFiles)
       THEN LET file == allFiles[currentNodeIndex + 1]
                r == generateUniqueNodeId(Ids, Basename(files[file]),
                                          files[file])
            IN  /\ FreeMeshes(Graph) # {}
                /\ Handle(Op("addNextNode", r.uniqueId, "", files[file]),
                          placeNode(addNode(Graph, r.uniqueId, files[file],
                                            phase),
                                    r.uniqueId, position, velocity),
                          r.ids)
                /\ currentNodeIndex' = currentNodeIndex + 1
                /\ timer' = "addNextNode"
       ELSE /\ Skip(Op("addNextNode", "", "", NoPath))
            /\ timer' = "startLinkAddition"
            /\ UNCHANGED currentNodeIndex
    /\ UNCHANGED <<previousLinks, gravityGraph, allFiles, allLinks,
                   currentLinkIndex, cachePending, reading, vaultVars, calls>>

\* addNextLink of startLinkAddition, called by it and then by its own
\* timeout.
AddNextLink ==
    /\ timer \in {"startLinkAddition", "addNextLink"}
    /\ IF currentLinkIndex < Len(allLinks)
       THEN LET link == allLinks[currentLinkIndex + 1]
            IN  /\ Handle(Op("addNextLink", link[1], link[2], NoPath),
                          addLink(Graph, link[1], link[2]), Ids)
                /\ currentLinkIndex' = currentLinkIndex + 1
                /\ timer' = "addNextLink"
       ELSE /\ Skip(Op("addNextLink", "", "", NoPath))
            /\ timer' = "none"
            /\ UNCHANGED currentLinkIndex
    /\ UNCHANGED <<previousLinks, gravityGraph, allFiles, allLinks,
                   currentNodeIndex, cachePending, reading, vaultVars, calls>>

(***************************************************************************)
(* GraphView: the live-update handlers.  A vault event and the handler it  *)
(* triggers are one step; onNewNoteCreated is two, its await of            *)
(* vault.read between them.                                                *)
(***************************************************************************)
\* A vault event is delivered once onOpen has registered the listeners.
Event ==
    /\ timer # "onOpen"
    /\ calls < MaxEvents
    /\ calls' = calls + 1

ExistingPaths == {files[f] : f \in vault}

\* The loop that adds a link for every target that resolves to a note with
\* a registered id and a node.
RECURSIVE addResolvedLinks(_, _, _, _, _, _)
addResolvedLinks(G, I, F, existing, uniqueId, targets) ==
    IF targets = << >> THEN G
    ELSE LET targetFile == getFirstLinkpathDest(F, existing, Head(targets))
             targetUniqueId == getUniqueIdFromPath(I, F[targetFile])
             G1 == IF targetFile # NoFile /\ targetUniqueId # ""
                      /\ hasNode(G, targetUniqueId)
                   THEN addLink(G, uniqueId, targetUniqueId)
                   ELSE G
         IN  addResolvedLinks(G1, I, F, existing, uniqueId, Tail(targets))

\* The loop that removes the link of every target that resolves to a note
\* with a registered id.
RECURSIVE removeResolvedLinks(_, _, _, _, _, _)
removeResolvedLinks(G, I, F, existing, uniqueId, targets) ==
    IF targets = << >> THEN G
    ELSE LET targetFile == getFirstLinkpathDest(F, existing, Head(targets))
             targetUniqueId == getUniqueIdFromPath(I, F[targetFile])
             G1 == IF targetFile # NoFile /\ targetUniqueId # ""
                   THEN removeLink(G, uniqueId, targetUniqueId)
                   ELSE G
         IN  removeResolvedLinks(G1, I, F, existing, uniqueId, Tail(targets))

initializeNewNodePosition(G, uniqueId, position) ==
    IF uniqueId \notin DOMAIN G.nodes THEN G
    ELSE [G EXCEPT !.meshes[G.nodes[uniqueId]].position = position,
                   !.meshes[G.nodes[uniqueId]].velocity = Zero3,
                   !.meshes[G.nodes[uniqueId]].force = Zero3]

\* A note is created at `path` with the link targets `text`;
\* onNewNoteCreated runs up to its await.
OnNewNoteCreated(path, text, phase) ==
    /\ Event
    /\ Len(files) < MaxFiles
    /\ path \notin ExistingPaths
    /\ LET file == Len(files) + 1
           r == generateUniqueNodeId(Ids, Basename(path), path)
       IN  /\ files' = Append(files, path)
           /\ vault' = vault \cup {file}
           /\ content' = Append(content, text)
           /\ IF ~gravityGraph
              THEN /\ Skip(Op("onNewNoteCreated", "", "", path))
                   /\ UNCHANGED reading
              ELSE /\ FreeMeshes(Graph) # {}
                   /\ Handle(Op("onNewNoteCreated", r.uniqueId, "", path),
                             addNode(Graph, r.uniqueId, path, phase), r.ids)
                   /\ reading' = reading \cup
                                     {[file |-> file, uniqueId |-> r.uniqueId]}
    /\ UNCHANGED <<previousLinks, gravityGraph, loadVars, timer, cachePending>>

\* vault.read settles for a suspended onNewNoteCreated: the rest of the
\* handler runs if it resolved, its catch block if it rejected.  The read of
\* a note that is in the vault resolves; the read of a note that was deleted
\* meanwhile rejects, or resolves if the text was fetched before the
\* deletion.
OnNewNoteCreatedRead(call, position, resolved) ==
    /\ call \in reading
    /\ call.file \in vault => resolved
    /\ reading' = reading \ {call}
    /\ LET path == files[call.file]
           links_ == content[call.file]
       IN  IF ~resolved
           THEN /\ Skip(Op("onNewNoteCreatedRead", call.uniqueId, "", path))
                /\ UNCHANGED previousLinks
           ELSE /\ Handle(Op("onNewNoteCreatedRead", call.uniqueId, "", path),
                          initializeNewNodePosition(
                              addResolvedLinks(Graph, Ids, files, vault,
                                               call.uniqueId, links_),
                              call.uniqueId, position),
                          Ids)
                /\ previousLinks' = Put(previousLinks, path, links_)
    /\ UNCHANGED <<gravityGraph, loadVars, timer, cachePending, vaultVars,
                   calls>>

\* The text of a note changes to the link targets `text`; checkForNewLinks
\* runs with what vault.read returns.
CheckForNewLinks(file, text) ==
    /\ Event
    /\ file \in vault
    /\ content' = [content EXCEPT ![file] = text]
    /\ LET path == files[file]
           previous == GetOr(previousLinks, path, << >>)
           newLinks == SelectSeq(text, LAMBDA l : ~Includes(previous, l))
           removedLinks == SelectSeq(previous, LAMBDA l : ~Includes(text, l))
           uniqueId == getUniqueIdFromPath(Ids, path)
       IN  IF ~gravityGraph \/ uniqueId = ""
           THEN /\ Skip(Op("checkForNewLinks", "", "", path))
                /\ UNCHANGED previousLinks
           ELSE /\ Handle(Op("checkForNewLinks", uniqueId, "", path),
                          removeResolvedLinks(
                              addResolvedLinks(Graph, Ids, files, vault,
                                               uniqueId, newLinks),
                              Ids, files, vault, uniqueId, removedLinks),
                          Ids)
                /\ previousLinks' = Put(previousLinks, path, text)
    /\ UNCHANGED <<gravityGraph, loadVars, timer, cachePending, reading,
                   files, vault>>

\* The counter update of onNoteDeleted.
releaseName(I, basename) ==
    LET count == GetOr(I.nodeNameCounter, basename, 0)
    IN  IF count > 1
        THEN [I EXCEPT !.nodeNameCounter = Put(@, basename, count - 1)]
        ELSE [I EXCEPT !.nodeNameCounter = Del(@, basename)]

\* onNoteDeleted without the return for a path that has no id.
OnNoteDeleted_NoIdCheck(file) ==
    /\ Event
    /\ file \in vault
    /\ vault' = vault \ {file}
    /\ LET path == files[file]
           uniqueId == getUniqueIdFromPath(Ids, path)
           I1 == [Ids EXCEPT !.pathToUniqueId = Del(@, path),
                             !.uniqueIdToPath = Del(@, uniqueId)]
       IN  IF ~gravityGraph
           THEN /\ Skip(Op("onNoteDeleted", "", "", path))
                /\ UNCHANGED previousLinks
           ELSE /\ Handle(Op("onNoteDeleted", uniqueId, "", path),
                          removeNode(Graph, uniqueId),
                          releaseName(I1, Basename(path)))
                /\ previousLinks' = Del(previousLinks, path)
    /\ UNCHANGED <<gravityGraph, loadVars, timer, cachePending, reading,
                   files, content>>

\* A note is deleted; onNoteDeleted runs.
OnNoteDeleted(file) ==
    /\ Event
    /\ file \in vault
    /\ vault' = vault \ {file}
    /\ LET path == files[file]
           uniqueId == getUniqueIdFromPath(Ids, path)
           I1 == [Ids EXCEPT !.pathToUniqueId = Del(@, path),
                             !.uniqueIdToPath = Del(@, uniqueId)]
       IN  IF ~gravityGraph \/ uniqueId = ""
           THEN /\ Skip(Op("onNoteDeleted", "", "", path))
                /\ UNCHANGED previousLinks
           ELSE /\ Handle(Op("onNoteDeleted", uniqueId, "", path),
                          removeNode(Graph, uniqueId),
                          releaseName(I1, Basename(path)))
                /\ previousLinks' = Del(previousLinks, path)
    /\ UNCHANGED <<gravityGraph, loadVars, timer, cachePending, reading,
                   files, content>>

\* The record of a rename event: the ids and the two paths.
RenameOp(a, b, path, oldPath) ==
    [op |-> "onNoteRenamed", a |-> a, b |-> b, path |-> path,
     oldPath |-> oldPath]

\* A note is moved to `newPath`; onNoteRenamed runs with the TFile, whose
\* path is the new one, and the old path.
OnNoteRenamed(file, newPath) ==
    /\ Event
    /\ file \in vault
    /\ newPath \notin ExistingPaths
    /\ files' = [files EXCEPT ![file] = newPath]
    /\ LET oldPath == files[file]
           oldUniqueId == getUniqueIdFromPath(Ids, oldPath)
           r == generateUniqueNodeId(Ids, Basename(newPath), newPath)
           I1 == [r.ids EXCEPT
                     !.pathToUniqueId = Put(Del(@, oldPath), newPath,
                                            r.uniqueId),
                     !.uniqueIdToPath = Put(Del(@, oldUniqueId), r.uniqueId,
                                            newPath)]
       IN  IF ~gravityGraph \/ oldUniqueId = ""
           THEN /\ Skip(RenameOp("", "", newPath, oldPath))
                /\ UNCHANGED previousLinks
           ELSE /\ Handle(RenameOp(oldUniqueId, r.uniqueId, newPath, oldPath),
                          renameNode(Graph, oldUniqueId, r.uniqueId, newPath),
                          I1)
                /\ previousLinks' =
                       IF oldPath \in DOMAIN previousLinks
                       THEN Put(Del(previousLinks, oldPath), newPath,
                                previousLinks[oldPath])
                       ELSE previousLinks
    /\ UNCHANGED <<gravityGraph, loadVars, timer, cachePending, reading,
                   vault, content>>

(***************************************************************************)
(* The view in a vault: it is opened on a vault of up to MaxInitialFiles   *)
(* notes, loads the graph gradually, and receives the vault's events.      *)
(***************************************************************************)
\* The outcomes of Math.random() and the stored settings the view is run
\* with.
ViewPhases == {0}

ViewPositions == {<<2, 0, 0>>}

ViewSettings == {SettingsDark}

Injective(seq) == \A i \in DOMAIN seq, j \in DOMAIN seq :
                      seq[i] = seq[j] => i = j

Init ==
    /\ \E n \in 0..MaxInitialFiles :
          /\ files \in {seq \in [1..n -> ViewPaths] : Injective(seq)}
          /\ content \in [1..n -> ContentValues]
          /\ vault = 1..n
    /\ nodes = EmptyMap
    /\ meshes = EmptyMap
    /\ links = << >>
    /\ nodeFilePaths = EmptyMap
    /\ colorPulseData = EmptyMap
    /\ labels = {}
    /\ nodeToUniqueId = EmptyMap
    /\ currentSettings = NoSettings
    /\ forces = DefaultForces
    /\ maxSpeed = 20000
    /\ freeze = FALSE
    /\ frozenNodes = {}
    /\ isRunning = FALSE
    /\ animationId = 0
    /\ animationFrames = {}
    /\ particleSystem = NewParticleSystem
    /\ NewView
    /\ gravityGraph = FALSE
    /\ timer = "onOpen"
    /\ runtime = NewWindow
    /\ lastOp = Op("new", "", "", NoPath)
    /\ prev = NewGraph
    /\ prevIds = NewIds
    /\ calls = 0

Next ==
    \/ OnOpen
    \/ InitializeLinkCache
    \/ \E settings \in ViewSettings : SceneReady(settings)
    \/ \E phase \in ViewPhases, position \in ViewPositions,
          velocity \in RandomVelocities :
          AddNextNode(phase, position, velocity)
    \/ AddNextLink
    \/ \E path \in ViewPaths, text \in ContentValues, phase \in ViewPhases :
          OnNewNoteCreated(path, text, phase)
    \/ \E call \in reading, position \in ViewPositions, resolved \in BOOLEAN :
          OnNewNoteCreatedRead(call, position, resolved)
    \/ \E file \in Files, text \in ContentValues :
          CheckForNewLinks(file, text)
    \/ \E file \in Files : OnNoteDeleted(file)
    \/ \E file \in Files, newPath \in ViewPaths : OnNoteRenamed(file, newPath)

Spec == Init /\ [][Next]_vars

(***************************************************************************)
(* Claims about the identity resolver (checked under Spec).                *)
(***************************************************************************)
\* C1: after any sequence of resolve, rename and release operations,
\* pathToUniqueId and uniqueIdToPath are inverses of each other: every
\* registered path maps to one id, that id maps back to the same path, and
\* no two registered paths share an id.
C1_IdentityBijection ==
    /\ \A path \in DOMAIN pathToUniqueId :
          /\ pathToUniqueId[path] \in DOMAIN uniqueIdToPath
          /\ uniqueIdToPath[pathToUniqueId[path]] = path
    /\ \A uniqueId \in DOMAIN uniqueIdToPath :
          /\ uniqueIdToPath[uniqueId] \in DOMAIN pathToUniqueId
          /\ pathToUniqueId[uniqueIdToPath[uniqueId]] = uniqueId

\* `${uniqueId} ${n}`, and uniqueId itself for n = 0.
Numbered(uniqueId, n) ==
    IF n = 0 THEN uniqueId ELSE uniqueId \o " " \o ToString(n)

\* C9: generateUniqueNodeId, called for a path that is not registered,
\* returns the bare basename for the first occurrence of the basename and
\* otherwise "basename (parentFolder)", extended by the first number for
\* which the string is not taken; the returned id is assigned to no
\* registered path and no id-to-path entry is overwritten.
C9_NewPathGetsFreshId ==
    \A path \in ViewPaths \ DOMAIN pathToUniqueId :
        LET basename == Basename(path)
            r == generateUniqueNodeId(Ids, basename, path)
            count == GetOr(nodeNameCounter, basename, 0)
            formatted == basename \o " (" \o folderName(path) \o ")"
        IN  /\ count = 0 => r.uniqueId = basename
            /\ count > 0 =>
                  \E n \in 0..Cardinality(DOMAIN uniqueIdToPath) :
                      /\ r.uniqueId = Numbered(formatted, n)
                      /\ \A m \in 0..(n - 1) :
                            Numbered(formatted, m) \in DOMAIN uniqueIdToPath
            /\ r.uniqueId \notin DOMAIN uniqueIdToPath
            /\ \A uniqueId \in DOMAIN uniqueIdToPath :
                  r.ids.uniqueIdToPath[uniqueId] = uniqueIdToPath[uniqueId]

\* C10: generateUniqueNodeId is idempotent per path: a call with a
\* registered path returns the id the path is registered with and changes
\* neither the two mappings nor the basename counter.  This holds for the
\* call that could be made in any reachable state, and for the call that
\* addNextNode has just made for a path onOpen had registered.
C10_RegisteredPathKeepsItsId ==
    /\ \A path \in DOMAIN pathToUniqueId :
          \A other \in ViewPaths :
              LET r == generateUniqueNodeId(Ids, Basename(other), path)
              IN  /\ r.uniqueId = pathToUniqueId[path]
                  /\ r.ids = Ids
    /\ (lastOp.op = "addNextNode"
        /\ lastOp.path \in DOMAIN prevIds.pathToUniqueId)
       => /\ lastOp.a = prevIds.pathToUniqueId[lastOp.path]
          /\ Ids = prevIds

\* addNextNode has resolved a path that onOpen had registered.
C10_Witness ==
    /\ lastOp.op = "addNextNode"
    /\ lastOp.path \in DOMAIN prevIds.pathToUniqueId
    /\ lastOp.a = prevIds.pathToUniqueId[lastOp.path]
    /\ prevIds.nodeNameCounter[Basename(lastOp.path)] >= 1

\* C11: releasing a registered path (onNoteDeleted) removes both
\* directions of its path-id mapping and decrements the counter of its
\* basename, deleting the entry when it reaches zero; and once a basename
\* has no counter entry, the next resolve of that basename returns the bare
\* name.
C11_ReleaseFreesPathAndName ==
    /\ (lastOp.op = "onNoteDeleted"
        /\ lastOp.path \in DOMAIN prevIds.pathToUniqueId)
       => LET path == lastOp.path
              uniqueId == prevIds.pathToUniqueId[path]
              basename == Basename(path)
              count == GetOr(prevIds.nodeNameCounter, basename, 0)
          IN  /\ path \notin DOMAIN pathToUniqueId
              /\ uniqueId \notin DOMAIN uniqueIdToPath
              /\ IF count > 1
                 THEN /\ basename \in DOMAIN nodeNameCounter
                      /\ nodeNameCounter[basename] = count - 1
                 ELSE basename \notin DOMAIN nodeNameCounter
    /\ \A path \in ViewPaths :
          Basename(path) \notin DOMAIN nodeNameCounter
          => generateUniqueNodeId(Ids, Basename(path), path).uniqueId
                 = Basename(path)

\* The event path of the last handler run: the old path for a rename.
EventPath == IF lastOp.op = "onNoteRenamed" THEN lastOp.oldPath
             ELSE lastOp.path

\* C12: looking up a path that is not registered yields null, and a
\* delete, rename or modify event for such a path changes neither the
\* identity mappings nor the Graph Store.
C12_UnregisteredPathIgnored ==
    /\ \A path \in ViewPaths \ DOMAIN pathToUniqueId :
          getUniqueIdFromPath(Ids, path) = ""
    /\ (lastOp.op \in {"onNoteDeleted", "onNoteRenamed", "checkForNewLinks"}
        /\ EventPath \notin DOMAIN prevIds.pathToUniqueId)
       => /\ Ids = prevIds
          /\ Graph = prev

\* A note that has no id, because it was created before the graph
\* existed, is deleted once the graph and another node exist.
C12_Witness ==
    /\ lastOp.op = "onNoteDeleted"
    /\ gravityGraph
    /\ lastOp.path \notin DOMAIN prevIds.pathToUniqueId
    /\ Basename(lastOp.path) \in DOMAIN prevIds.nodeNameCounter
    /\ DOMAIN nodes # {}

(***************************************************************************)
(* The simulation: a loaded graph, the frames of the animation loop and    *)
(* the settings tab.  The nodes lie on the x axis, where every length is   *)
(* exact.                                                                  *)
(***************************************************************************)
\* Positions of the nodes: two closer than Epsilon, the others further
\* apart.
PhysicsPositions == {<<0, 0, 0>>, <<500, 0, 0>>, <<10000, 0, 0>>,
                     <<-15000, 0, 0>>}

\* Velocities of the nodes of a graph that has run for some frames: at
\* rest, below velocityTreshold, above the maxSpeed of SettingsLight (a
\* speed a node has reached under a higher maxSpeed).
PhysicsVelocities == {<<0, 0, 0>>, <<5, 0, 0>>, <<2500, 0, 0>>}

\* The settings the tab stores in the simulation: SettingsLight, and
\* SettingsDark with the repulsion slider at its minimum and a maxSpeed of
\* 0.5, with the freeze toggle on and off.
SettingsSlow == [SettingsDark EXCEPT !.forces.repulsion = 100,
                                     !.maxSpeed = 5000]

PhysicsSettings == {SettingsLight, SettingsSlow,
                    [SettingsSlow EXCEPT !.freeze = TRUE]}

\* The graph of a view that has loaded the notes `ids`: onOpen's scene
\* setup, then addNode and the placement per note.
RECURSIVE Scene(_, _, _, _)
Scene(ids, settings, place, velocity) ==
    IF ids = {} THEN start(updateSettingsParameters(NewGraph, settings))
    ELSE LET id == CHOOSE i \in ids : TRUE
             G == Scene(ids \ {id}, settings, place, velocity)
         IN  placeNode(addNode(G, id, StorePath(id), 0), id, place[id],
                       IF id = "x" THEN velocity ELSE Zero3)

\* The loaded graphs: the notes, the settings, the placement, and a link
\* from "x" to "y" or none.
PhysicsInit ==
    /\ \E ids \in SUBSET StoreIds, settings \in PhysicsSettings,
          velocity \in PhysicsVelocities, linked \in BOOLEAN :
          /\ Cardinality(ids) <= MaxMeshes
          /\ \E place \in [ids -> PhysicsPositions] :
                LET scene == Scene(ids, settings, place, velocity)
                    G == IF linked THEN addLink(scene, "x", "y") ELSE scene
                IN  /\ nodes = G.nodes
                    /\ meshes = G.meshes
                    /\ links = G.links
                    /\ nodeFilePaths = G.nodeFilePaths
                    /\ colorPulseData = G.colorPulseData
                    /\ labels = G.labels
                    /\ nodeToUniqueId = G.nodeToUniqueId
                    /\ currentSettings = G.currentSettings
                    /\ forces = G.forces
                    /\ maxSpeed = G.maxSpeed
                    /\ freeze = G.freeze
                    /\ frozenNodes = G.frozenNodes
                    /\ isRunning = G.isRunning
                    /\ animationId = G.animationId
                    /\ animationFrames = G.animationFrames
                    /\ particleSystem = G.particleSystem
                    /\ prev = G
    /\ NewView
    /\ gravityGraph = TRUE
    /\ timer = "none"
    /\ files = << >> /\ vault = {} /\ content = << >>
    /\ runtime = NewWindow
    /\ lastOp = Op("new", "", "", NoPath)
    /\ prevIds = NewIds
    /\ calls = 0

\* One frame of the animation loop: a callback that animate has requested
\* runs.
Tick ==
    /\ calls < MaxTicks
    /\ \E frame \in animationFrames :
          LET G == [Graph EXCEPT !.animationFrames = @ \ {frame}]
          IN  /\ prev' = G
              /\ lastOp' = Op(IF G.isRunning THEN "animate" ELSE "return",
                              "", "", NoPath)
              /\ SetGraph(animate(G))
    /\ calls' = calls + 1
    /\ UNCHANGED <<viewVars, vaultVars, runtime, prevIds>>

\* The user changes a setting in the tab: the settings are saved and
\* applied to the graph.
UpdateSettingsParameters(settings) ==
    /\ gravityGraph
    /\ settings # currentSettings
    /\ prev' = Graph
    /\ lastOp' = Op("updateSettingsParameters", "", "", NoPath)
    /\ SetGraph(updateSettingsParameters(Graph, settings))
    /\ UNCHANGED <<viewVars, vaultVars, runtime, prevIds, calls>>

PhysicsNext ==
    \/ Tick
    \/ \E settings \in PhysicsSettings : UpdateSettingsParameters(settings)

PhysicsSpec == PhysicsInit /\ [][PhysicsNext]_vars


(***************************************************************************)
(* The freeze policy and the integration.                                  *)
(***************************************************************************)
\* The last step was a frame of the animation loop.
Ticked == lastOp.op = "animate"

\* The graph of the last frame after calculateForces, before the loop of
\* updateAllNodes.
Forced == calculateForces(prev)

\* The net force of the node in the last frame.
NetForce(uniqueId) == Forced.meshes[Forced.nodes[uniqueId]].force

\* The velocity of the node in the last frame after the integration, the
\* friction and the limit of the speed.
Integrated(uniqueId) ==
    enforceMaxSpeed(Forced, applyFriction(Forced,
        add(Forced.meshes[Forced.nodes[uniqueId]].velocity,
            NetForce(uniqueId))))

\* The nodes that were Active when the last frame began.
ActiveBefore == DOMAIN prev.nodes \ prev.frozenNodes

\* C13: with the freeze policy enabled, an Active node is Frozen after a
\* tick exactly when its squared speed after the integration and its
\* squared net force are both below velocityTreshold squared.
C13_FreezeBelowOneThreshold ==
    (Ticked /\ prev.freeze)
        => \A id \in ActiveBefore :
              id \in frozenNodes
                  <=> /\ lengthSq(Integrated(id)) < FreezeThreshold
                      /\ lengthSq(NetForce(id)) < FreezeThreshold

\* The nodes that were Frozen when the last frame began.
FrozenBefore == DOMAIN prev.nodes \cap prev.frozenNodes

\* C14: a Frozen node whose squared net force in a tick exceeds 100 times
\* the squared threshold is Active after the tick, any other Frozen node
\* stays Frozen, and the force bound for leaving Frozen is strictly higher
\* than the force bound for entering it.
C14_UnfreezeWithHysteresis ==
    /\ Ticked
          => \A id \in FrozenBefore :
                id \in frozenNodes
                    <=> lengthSq(NetForce(id)) <= FreezeThreshold * 100
    /\ leaveForceBound > enterForceBound


\* What the link loop adds to the force of mesh a over the links that join
\* it to mesh b, from link i on.
RECURSIVE SpringShare(_, _, _, _)
SpringShare(G, a, b, i) ==
    IF i > Len(G.links) THEN Zero3
    ELSE LET link == G.links[i]
             rest == SpringShare(G, a, b, i + 1)
         IN  IF link.from = a /\ link.to = b
             THEN add(SpringPair(G, link), rest)
             ELSE IF link.from = b /\ link.to = a
                  THEN sub(rest, SpringPair(G, link))
                  ELSE rest

\* What the repulsion loop adds to the force of mesh a for its pair with
\* mesh b.
RepulsionShare(G, a, b) ==
    IF distanceTo(G.meshes[a].position, G.meshes[b].position) < Epsilon
    THEN Zero3
    ELSE IF a < b THEN RepulsionDirection(G, a, b)
         ELSE negate(RepulsionDirection(G, b, a))

\* The repulsion and spring contribution of node `from` to the force of
\* node `on`.
Contribution(G, on, from) ==
    add(RepulsionShare(G, G.nodes[on], G.nodes[from]),
        SpringShare(G, G.nodes[on], G.nodes[from], 1))

\* The nodes the last frame has frozen.
FrozenNow == (DOMAIN prev.nodes \cap frozenNodes) \ prev.frozenNodes

\* C15: a node that is Frozen when the loop of a tick reaches it keeps its
\* position and its velocity, and the force of every other node holds the
\* repulsion and spring contribution of the frozen node: it is the force
\* of that node in the graph without the frozen node, plus the
\* contribution.
C15_FrozenNodeIsAnAnchor ==
    Ticked
        => \A id \in FrozenBefore :
              /\ Position(Graph, id) = Position(prev, id)
              /\ Velocity(Graph, id) = Velocity(prev, id)
              /\ \A other \in DOMAIN prev.nodes \ ({id} \cup FrozenNow) :
                    meshes[nodes[other]].force
                        = add(calculateForces(removeNode(prev, id))
                                  .meshes[nodes[other]].force,
                              Contribution(prev, other, id))

\* A tick with a frozen node that pushes or pulls another node, while a
\* force acts on the frozen node itself.
C15_Witness ==
    /\ Ticked
    /\ \E id \in FrozenBefore :
          /\ NetForce(id) # Zero3
          /\ \E other \in DOMAIN prev.nodes \ ({id} \cup FrozenNow) :
                Contribution(prev, other, id) # Zero3

\* C16: while the freeze policy is disabled no node is Frozen; a node
\* enters the frozen set only in a tick run with the policy enabled, and
\* disabling the policy empties the set.
C16_FrozenOnlyUnderPolicy ==
    /\ ~freeze => frozenNodes = {}
    /\ frozenNodes \ prev.frozenNodes # {} => Ticked /\ prev.freeze

\* The policy has just been disabled while nodes were Frozen.
C16_Witness ==
    /\ lastOp.op = "updateSettingsParameters"
    /\ ~freeze
    /\ prev.frozenNodes # {}

\* The sum of the contributions of the nodes `others` to the force of
\* node `on`.
RECURSIVE Contributions(_, _, _)
Contributions(G, on, others) ==
    IF others = {} THEN Zero3
    ELSE LET from == CHOOSE id \in others : TRUE
         IN  add(Contribution(G, on, from),
                 Contributions(G, on, others \ {from}))

\* C17: the force a tick leaves on a node is the sum of the repulsion and
\* spring contributions of the other nodes and of the centre attraction,
\* each computed from the positions at the start of the tick, and the tick
\* moves an Active node from its position at the start by its new velocity.
C17_ForcesFromStartPositions ==
    Ticked
        => /\ \A id \in DOMAIN prev.nodes \ FrozenNow :
                 meshes[nodes[id]].force
                     = add(Contributions(prev, id, DOMAIN prev.nodes \ {id}),
                           CenterForce(prev, prev.nodes[id]))
           /\ \A id \in ActiveBefore :
                 Position(Graph, id)
                     = add(Position(prev, id), Velocity(Graph, id))

\* A tick that moved a node and left on a node a force that differs from
\* the force the positions after the tick give.
C17_Witness ==
    /\ Ticked
    /\ \E id \in ActiveBefore : Position(Graph, id) # Position(prev, id)
    /\ \E id \in DOMAIN prev.nodes \ FrozenNow :
          meshes[nodes[id]].force
              # calculateForces(Graph).meshes[nodes[id]].force

\* The forces the repulsion loop alone leaves on the meshes of G, over
\* `pairs`.
Repulsion(G, pairs) == RepulsionPass(G, ResetForces(G), pairs)

\* The pairs of the repulsion loop that are at least Epsilon apart.
FarPairs(G) ==
    {p \in NodePairs(G) :
        distanceTo(G.meshes[p[1]].position, G.meshes[p[2]].position)
            >= Epsilon}

RECURSIVE SumForces(_, _)
SumForces(M, ms) ==
    IF ms = {} THEN Zero3
    ELSE LET m == CHOOSE x \in ms : TRUE
         IN  add(M[m].force, SumForces(M, ms \ {m}))

\* C18: for every pair of distinct nodes at a distance of Epsilon or more,
\* what the repulsion loop adds to one node is the negation of what it adds
\* to the other, and the repulsion contributions of a tick sum to zero.
C18_RepulsionIsAntisymmetric ==
    /\ \A p \in FarPairs(Graph) :
          Repulsion(Graph, {p})[p[1]].force
              = negate(Repulsion(Graph, {p})[p[2]].force)
    /\ SumForces(Repulsion(Graph, NodePairs(Graph)), Range(nodes)) = Zero3

\* A tick has run on a graph with two nodes that repel each other.
C18_Witness ==
    /\ Ticked
    /\ \E p \in FarPairs(prev) : Repulsion(prev, {p})[p[1]].force # Zero3

\* C19: for every pair of nodes closer than Epsilon, coincident nodes
\* included, the repulsion loop adds nothing to either node, and no
\* quotient by a zero distance is taken: the loop over all the pairs leaves
\* what the loop over the far pairs leaves.
C19_NoRepulsionBelowEpsilon ==
    /\ \A p \in NodePairs(Graph) \ FarPairs(Graph) :
          /\ Repulsion(Graph, {p})[p[1]].force = Zero3
          /\ Repulsion(Graph, {p})[p[2]].force = Zero3
    /\ Repulsion(Graph, NodePairs(Graph)) = Repulsion(Graph, FarPairs(Graph))

\* A tick has run on a graph with two coincident nodes and with two nodes
\* closer than Epsilon that are not coincident.
C19_Witness ==
    /\ Ticked
    /\ \E p \in NodePairs(prev) :
          prev.meshes[p[1]].position = prev.meshes[p[2]].position
    /\ \E p \in NodePairs(prev) \ FarPairs(prev) :
          prev.meshes[p[1]].position # prev.meshes[p[2]].position

\* C20: after a tick every node the tick has integrated has a speed of at
\* most the maxSpeed of the tick.
C20_SpeedAtMostMaxSpeed ==
    Ticked
        => \A id \in ActiveBefore :
              lengthSq(Velocity(Graph, id)) <= prev.maxSpeed * prev.maxSpeed

\* A tick has integrated a node whose velocity after the friction was above
\* maxSpeed.
C20_Witness ==
    /\ Ticked
    /\ \E id \in ActiveBefore :
          length(applyFriction(Forced,
                     add(Velocity(prev, id), NetForce(id)))) > prev.maxSpeed

\* C21: in every tick, an Active node whose speed after the friction and
\* the limit of the speed is below velocityTreshold has its velocity set to
\* zero before its position is updated (so it does not move), with the
\* freeze policy disabled and with it enabled.
C21_SlowNodeIsStopped ==
    Ticked
        => \A id \in ActiveBefore :
              lengthSq(Integrated(id)) < FreezeThreshold
                  => /\ Velocity(Graph, id) = Zero3
                     /\ Position(Graph, id) = Position(prev, id)

\* The graph G with every colour taken from C: the colour of each mesh,
\* the base colour and the brightness multiplier of each pulse, and the
\* settings the colours are computed from.
Recoloured(G, C) ==
    [G EXCEPT
        !.currentSettings = C.currentSettings,
        !.meshes = [m \in DOMAIN @ |->
            IF m \in DOMAIN C.meshes
            THEN [@[m] EXCEPT !.color = C.meshes[m].color]
            ELSE @[m]],
        !.colorPulseData = [id \in DOMAIN @ |->
            IF id \in DOMAIN C.colorPulseData
            THEN [@[id] EXCEPT
                     !.baseColor = C.colorPulseData[id].baseColor,
                     !.emissiveStrenghtMultiplier =
                         C.colorPulseData[id].emissiveStrenghtMultiplier]
            ELSE @[id]]]

\* C30: updateNodeColors, called in any state between two ticks, changes
\* colour state only: the graph after it is the graph before it but for
\* the colours, so the position, velocity and force of every node, the
\* frozen set and the links are as they were.
C30_RecolouringKeepsKinematics ==
    \A settings \in PhysicsSettings :
        LET after == updateNodeColors(Graph, settings)
        IN  /\ after = Recoloured(Graph, after)
            /\ after.links = links
            /\ after.frozenNodes = frozenNodes
            /\ \A id \in DOMAIN nodes :
                  /\ Live(after, id)
                  /\ Position(after, id) = Position(Graph, id)
                  /\ Velocity(after, id) = Velocity(Graph, id)
                  /\ after.meshes[after.nodes[id]].force
                         = meshes[nodes[id]].force

\* The settings have been changed in the middle of a simulation: a colour
\* has changed while a node is frozen and a force acts on another node.
C30_Witness ==
    /\ lastOp.op = "updateSettingsParameters"
    /\ calls > 0
    /\ frozenNodes # {}
    /\ \E id \in DOMAIN nodes : meshes[nodes[id]].force # Zero3
    /\ \E id \in DOMAIN nodes :
          meshes[nodes[id]].color # prev.meshes[prev.nodes[id]].color

(***************************************************************************)
(* The particle flow: the render loop of the view calls updateParticles    *)
(* once per frame, the timeouts of a spawn cycle fire when they are due,   *)
(* and meanwhile the user changes the settings and the vault's events      *)
(* remove links and nodes.  A run starts from a loaded graph of three      *)
(* notes.                                                                  *)
(***************************************************************************)
\* The settings of the tab in this part: two particles, a cycle per second
\* and 200 ms between the spawns of a cycle; and one particle, a cycle every
\* two seconds and no delay.
SettingsFlow == [SettingsSlow EXCEPT !.maxParticles = 2,
                                     !.particlesSpawnRate = 1000,
                                     !.particlesShuffleDelay = 200]

SettingsTrickle == [SettingsSlow EXCEPT !.maxParticles = 1,
                                        !.particlesSpawnRate = 2000,
                                        !.particlesShuffleDelay = 0]

ParticleSettings == {SettingsFlow, SettingsTrickle}

\* Outcomes of 0.3 + Math.random() * 0.4, in thousandths.
Speeds == {300, 600}

\* The time between two frames of the render loop, in milliseconds.
Deltas == {500, 1000}

MaxDelta == 1000

\* The outcomes of [...links].sort(() => Math.random() - 0.5): the orders of
\* the links.
Shuffles(seq) ==
    {[i \in DOMAIN seq |-> seq[p[i]]] :
        p \in {q \in [DOMAIN seq -> DOMAIN seq] : Injective(q)}}

FlowPlace == [id \in StoreIds |-> CASE id = "x" -> <<10000, 0, 0>>
                                    [] id = "y" -> <<-15000, 0, 0>>
                                    [] OTHER -> <<0, 0, 0>>]

\* The links of the loaded graph: none, x -> y, or x -> y and y -> z.
FlowLinks == {<< >>, <<<<"x", "y">>>>, <<<<"x", "y">>, <<"y", "z">>>>}

RECURSIVE Linked(_, _)
Linked(G, pairs) ==
    IF pairs = << >> THEN G
    ELSE addLink(Linked(G, SubSeq(pairs, 1, Len(pairs) - 1)),
                 pairs[Len(pairs)][1], pairs[Len(pairs)][2])

ParticleInit ==
    /\ \E settings \in ParticleSettings, pairs \in FlowLinks :
          LET G == Linked(Scene(StoreIds, settings, FlowPlace, Zero3), pairs)
          IN  /\ nodes = G.nodes
              /\ meshes = G.meshes
              /\ links = G.links
              /\ nodeFilePaths = G.nodeFilePaths
              /\ colorPulseData = G.colorPulseData
              /\ labels = G.labels
              /\ nodeToUniqueId = G.nodeToUniqueId
              /\ currentSettings = G.currentSettings
              /\ forces = G.forces
              /\ maxSpeed = G.maxSpeed
              /\ freeze = G.freeze
              /\ frozenNodes = G.frozenNodes
              /\ isRunning = G.isRunning
              /\ animationId = G.animationId
              /\ animationFrames = G.animationFrames
              /\ particleSystem = G.particleSystem
              /\ prev = G
    /\ NewView
    /\ gravityGraph = TRUE
    /\ timer = "none"
    /\ files = << >> /\ vault = {} /\ content = << >>
    /\ runtime = NewWindow
    /\ lastOp = Op("new", "", "", NoPath)
    /\ prevIds = NewIds
    /\ calls = 0

\* The graph after `ms` milliseconds in which no handler runs.
Later(G, ms) == [G EXCEPT !.particleSystem = elapse(@, ms)]

\* A frame of the render loop (GraphView.onOpen, animate), `deltaTime` after
\* the frame before it: the timeouts that were due earlier have run.
RenderFrame(deltaTime, shuffledLinks) ==
    LET ms == deltaTime - runtime.lastTime
        now == Later(Graph, ms)
    IN  /\ gravityGraph
        /\ runtime.running = Idle
        /\ ms >= 0
        /\ \A i \in DOMAIN particleSystem.timeouts :
              particleSystem.timeouts[i].remaining >= ms
        /\ prev' = now
        /\ lastOp' = [op |-> "updateParticles", deltaTime |-> deltaTime,
                      shuffledLinks |-> shuffledLinks]
        /\ SetGraph(updateParticles(now, deltaTime, shuffledLinks))
        /\ runtime' = [runtime EXCEPT !.lastTime = 0]
        /\ UNCHANGED <<viewVars, vaultVars, prevIds, calls>>

\* The index of the timeout that fires next: the one that is due first, and
\* of those the one created first.
NextTimeout(PS) ==
    CHOOSE i \in DOMAIN PS.timeouts :
        \A j \in DOMAIN PS.timeouts :
            \/ PS.timeouts[i].remaining < PS.timeouts[j].remaining
            \/ PS.timeouts[i].remaining = PS.timeouts[j].remaining /\ i <= j

Without(seq, i) == SubSeq(seq, 1, i - 1) \o SubSeq(seq, i + 1, Len(seq))

\* A timeout of a spawn cycle fires: () => this.spawnParticle(link).
SpawnTimeout(speed) ==
    /\ particleSystem.timeouts # << >>
    /\ runtime.running = Idle
    /\ LET i == NextTimeout(particleSystem)
           timeout == particleSystem.timeouts[i]
           ms == timeout.remaining
           now == Later(Graph, ms)
       IN  /\ runtime.lastTime + ms <= MaxDelta
           /\ prev' = now
           /\ lastOp' = [op |-> "spawnParticle", link |-> timeout.link,
                         delay |-> timeout.delay, speed |-> speed]
           /\ SetGraph([now EXCEPT !.particleSystem =
                  spawnParticle([@ EXCEPT !.timeouts = Without(@, i)],
                                timeout.link, speed)])
           /\ runtime' = [runtime EXCEPT !.lastTime = @ + ms]
    /\ UNCHANGED <<viewVars, vaultVars, prevIds, calls>>

ParticleNext ==
    \/ \E deltaTime \in Deltas, shuffledLinks \in Shuffles(linkData(Graph)) :
          RenderFrame(deltaTime, shuffledLinks)
    \/ \E speed \in Speeds : SpawnTimeout(speed)
    \/ \E settings \in ParticleSettings : UpdateSettingsParameters(settings)
    \/ \E a \in StoreIds, b \in StoreIds : RemoveLink(a, b)
    \/ \E id \in StoreIds : RemoveNode(id)

ParticleSpec == ParticleInit /\ [][ParticleNext]_vars


(***************************************************************************)
(* The particles in flight and the pool.                                   *)
(***************************************************************************)
\* The last step was a timeout of a spawn cycle, a frame of the render
\* loop, a change of the settings.
Spawned == lastOp.op = "spawnParticle"

Updated == lastOp.op = "updateParticles"

SettingsApplied == lastOp.op = "updateSettingsParameters"

\* C22: in every reachable state the number of particles in flight is at
\* most maxParticles: also right after the settings lower the maximum, and
\* when the timeouts of a cycle that started before the change fire after
\* it.
C22_AtMostMaxParticles ==
    Len(particleSystem.particles) <= particleSystem.maxParticles

\* A timeout created with the delay of SettingsFlow fires under
\* SettingsTrickle, whose single slot is taken, and spawns nothing.
C22_Witness ==
    /\ Spawned
    /\ lastOp.delay > 0
    /\ currentSettings = SettingsTrickle
    /\ Len(prev.particleSystem.particles) = 1
    /\ particleSystem.particles = prev.particleSystem.particles

\* The idle slots of a pool.
IdleSlots(PS) == (1..PS.particlePool.size) \ PS.particlePool.visible

\* `after` is `before` with one more particle: a new one on `link`, from
\* its source to its destination, at progress 0 and in a slot that was idle.
Bound(before, after, link) ==
    LET p == after.particles[Len(after.particles)]
    IN  /\ Len(after.particles) = Len(before.particles) + 1
        /\ SubSeq(after.particles, 1, Len(before.particles))
              = before.particles
        /\ p.mesh \in IdleSlots(before)
        /\ IdleSlots(after) = IdleSlots(before) \ {p.mesh}
        /\ p.progress = 0
        /\ p.direction = 1
        /\ p.link = link
        /\ after = [before EXCEPT !.particles = after.particles,
                                  !.particlePool.visible = @ \cup {p.mesh}]

\* What C24 states of a call of spawnParticle(link) that takes `before` to
\* `after`.
SpawnEffect(before, after, link) ==
    IF Len(before.particles) >= before.maxParticles \/ IdleSlots(before) = {}
    THEN after = before
    ELSE Bound(before, after, link)

\* C24: spawnParticle called with the count at maxParticles, or with no
\* idle slot, changes nothing; otherwise it binds exactly one slot that was
\* idle to one new particle, of progress 0 and travelling from the source
\* of the link to its destination.  Stated of a call in any reachable state
\* and of the calls the timeouts make.
C24_SpawnBindsOneIdleSlot ==
    /\ \A i \in DOMAIN links, speed \in Speeds :
          SpawnEffect(particleSystem,
                      spawnParticle(particleSystem, linkData(Graph)[i],
                                    speed),
                      linkData(Graph)[i])
    /\ Spawned =>
          /\ SpawnEffect([prev.particleSystem EXCEPT
                             !.timeouts = particleSystem.timeouts],
                         particleSystem, lastOp.link)
          /\ Graph = [prev EXCEPT !.particleSystem = particleSystem]

\* A timeout has bound the second slot while the first was taken.
C24_Witness ==
    /\ Spawned
    /\ Len(prev.particleSystem.particles) = 1
    /\ Len(particleSystem.particles) = 2
    /\ particleSystem.particles[2].mesh = 2

\* C25: setMaxParticles(n) leaves a pool of exactly n idle slots and no
\* particle in flight.  Stated of a call in any reachable state and of the
\* calls a change of the settings makes.
C25_SetMaxParticlesRebuildsPool ==
    /\ \A settings \in ParticleSettings :
          LET n == settings.maxParticles
              after == setMaxParticles(Graph, n).particleSystem
          IN  /\ after.maxParticles = n
              /\ after.particlePool = [size |-> n, visible |-> {}]
              /\ after.particles = << >>
    /\ SettingsApplied =>
          /\ particleSystem.particlePool
                = [size |-> currentSettings.maxParticles, visible |-> {}]
          /\ particleSystem.particles = << >>

\* The settings were changed while two particles were in flight.
C25_Witness ==
    /\ SettingsApplied
    /\ Len(prev.particleSystem.particles) = 2
    /\ particleSystem.maxParticles = 1

\* The timeouts the last call of update has created.
Scheduled ==
    SubSeq(particleSystem.timeouts, Len(prev.particleSystem.timeouts) + 1,
           Len(particleSystem.timeouts))

\* The last call of update has started a spawn cycle.
CycleStarted == Updated /\ particleSystem.lastSpawn = 0

\* C26: a call of update starts a spawn cycle only if more than spawnRate
\* milliseconds have passed since the cycle before it started and the graph
\* has a link; the cycle schedules exactly one spawn attempt per link handed
\* to that call, the link at index k of the shuffled order (k counted from
\* 0, as forEach does) with a delay of k * particlesDelay, and each attempt
\* is made that long after the start of the cycle.  A call that starts no
\* cycle schedules nothing.
C26_CycleStaggersOneAttemptPerLink ==
    /\ Updated =>
          LET before == prev.particleSystem
          IN  /\ SubSeq(particleSystem.timeouts, 1, Len(before.timeouts))
                    = before.timeouts
              /\ IF CycleStarted
                 THEN /\ before.lastSpawn > before.spawnRate
                      /\ Len(prev.links) > 0
                      /\ Len(Scheduled) = Len(prev.links)
                      /\ \E p \in [DOMAIN prev.links -> DOMAIN prev.links] :
                            /\ Injective(p)
                            /\ \A k \in DOMAIN Scheduled :
                                  Scheduled[k].link = linkData(prev)[p[k]]
                      /\ \A k \in DOMAIN Scheduled :
                            /\ Scheduled[k].link = lastOp.shuffledLinks[k]
                            /\ Scheduled[k].delay
                                  = (k - 1) * before.particlesDelay
                            /\ Scheduled[k].remaining = Scheduled[k].delay
                 ELSE /\ Scheduled = << >>
                      /\ particleSystem.lastSpawn = before.lastSpawn
    /\ Spawned => prev.particleSystem.lastSpawn = lastOp.delay

\* The second link of a cycle is attempted 200 ms after the cycle started,
\* and its particle is spawned.
C26_Witness ==
    /\ Spawned
    /\ lastOp.delay = 200
    /\ prev.particleSystem.lastSpawn = 200
    /\ Len(particleSystem.particles) = 2

\* The link objects the graph holds, as updateParticles would hand them on.
LiveLinks(G) == Range(linkData(G))

\* C29: the particle system keeps no link past the call of update that
\* handed it over: every particle in flight travels along a link the graph
\* still holds, and a timeout never spawns a particle on a link that has
\* been removed, by removeLink or with one of its endpoints by removeNode.
C29_NoParticleOnRemovedLink ==
    /\ \A i \in DOMAIN particleSystem.particles :
          particleSystem.particles[i].link \in LiveLinks(Graph)
    /\ (Spawned /\ Len(particleSystem.particles)
                      > Len(prev.particleSystem.particles))
          => lastOp.link \in LiveLinks(Graph)

\* The particle flow of a graph that is left as it is, with a render loop
\* that keeps running and timeouts that fire: requestAnimationFrame
\* reschedules the frame in every frame, and a timeout that is due runs.
FlowNext ==
    \/ \E deltaTime \in Deltas, shuffledLinks \in Shuffles(linkData(Graph)) :
          RenderFrame(deltaTime, shuffledLinks)
    \/ \E speed \in Speeds : SpawnTimeout(speed)
    \/ \E settings \in ParticleSettings : UpdateSettingsParameters(settings)

ParticleLiveSpec ==
    /\ ParticleInit
    /\ [][FlowNext]_vars
    /\ WF_vars(\E deltaTime \in Deltas,
                  shuffledLinks \in Shuffles(linkData(Graph)) :
                  RenderFrame(deltaTime, shuffledLinks))
    /\ WF_vars(\E speed \in Speeds : SpawnTimeout(speed))

\* The progress of the particle in `slot`, -1 if the slot is idle.
ProgressIn(PS, slot) ==
    IF \E i \in DOMAIN PS.particles : PS.particles[i].mesh = slot
    THEN PS.particles[CHOOSE i \in DOMAIN PS.particles :
                         PS.particles[i].mesh = slot].progress
    ELSE -1

\* The slots of the largest pool.
Slots == 1..2

\* A step in which the particle of a slot stays in flight does not take its
\* progress back.
ProgressKept ==
    \A slot \in Slots :
        (/\ slot \in particleSystem.particlePool.visible
         /\ slot \in particleSystem'.particlePool.visible)
            => ProgressIn(particleSystem', slot)
                  >= ProgressIn(particleSystem, slot)

\* C23: while the render loop keeps calling update with a positive
\* deltaTime, every particle that is spawned is retired in the end: it
\* leaves the list of the particles in flight and its slot is idle again.
\* The speed of a particle in flight is always above 0, and its progress
\* never goes down.
C23_EveryParticleIsRetired ==
    /\ \A slot \in Slots :
          (slot \in particleSystem.particlePool.visible)
              ~> /\ slot \notin particleSystem.particlePool.visible
                 /\ ProgressIn(particleSystem, slot) = -1
    /\ [](\A i \in DOMAIN particleSystem.particles :
             particleSystem.particles[i].speed > 0)
    /\ [][ProgressKept]_vars

\* A frame has retired a particle that had been in flight for some frames.
C23_Witness ==
    /\ Updated
    /\ \E i \in DOMAIN prev.particleSystem.particles :
          LET p == prev.particleSystem.particles[i]
          IN  /\ p.progress > 0
              /\ Arrived(Advance(p, lastOp.deltaTime))
              /\ p.mesh \notin particleSystem.particlePool.visible

(***************************************************************************)
(* The frame loop and the store.  The callbacks of the window (a frame of  *)
(* animate, a vault event that calls a method of the store) run one at a   *)
(* time: a callback is taken up only when no handler is on the stack.  A   *)
(* method that writes the store more than once is two steps here, its      *)
(* first write and the rest, and a frame is two steps as well, the physics *)
(* and the request of the next frame, so that what happens in between is   *)
(* visible.  stop() is also called from within a handler.                  *)
(***************************************************************************)
\* The window takes up callbacks whatever is on the stack.
Dispatch_Anytime == TRUE

\* The window takes up a callback.
Dispatch == runtime.running = Idle

\* addNode up to nodes.set, and from nodeToUniqueId.set on.
addNodeBegin(G, uniqueId, filePath) ==
    LET G1 == IF filePath # NoPath
              THEN [G EXCEPT !.nodeFilePaths = Put(@, uniqueId, filePath)]
              ELSE G
        nodeColor == getNodeColor(G1, uniqueId)
        mesh == NewMesh(G)
    IN  [G1 EXCEPT
            !.meshes = Put(@, mesh, [position |-> Zero3, velocity |-> Zero3,
                                     force |-> Zero3, color |-> nodeColor,
                                     scale |-> Unit]),
            !.nodes = Put(@, uniqueId, mesh)]

addNodeEnd(G, uniqueId, phase) ==
    IF uniqueId \notin DOMAIN G.nodes THEN G
    ELSE LET mesh == G.nodes[uniqueId]
             nodeColor == G.meshes[mesh].color
         IN  [G EXCEPT
                 !.nodeToUniqueId = Put(@, mesh, uniqueId),
                 !.colorPulseData = Put(@, uniqueId,
                                        NewPulse(phase, nodeColor))]

\* removeNode up to the filtering of the links, and from nodes.delete on.
removeNodeBegin(G, uniqueId) ==
    IF uniqueId \notin DOMAIN G.nodes THEN G
    ELSE LET node == G.nodes[uniqueId]
         IN  [G EXCEPT
                 !.links = SelectSeq(@, LAMBDA link : ~Touches(link, node))]

removeNodeEnd(G, uniqueId) ==
    IF uniqueId \notin DOMAIN G.nodes THEN G
    ELSE LET node == G.nodes[uniqueId]
             G1 == [G EXCEPT !.nodes = Del(@, uniqueId),
                             !.nodeToUniqueId = Del(@, node),
                             !.colorPulseData = Del(@, uniqueId),
                             !.nodeFilePaths = Del(@, uniqueId)]
         IN  Collect(removeLabelForNode(G1, uniqueId))

\* renameNode up to nodes.delete, and from nodes.set on; `node` is the
\* constant of that name, 0 if the method has returned at its guard.
renameNodeBegin(G, oldUniqueId) ==
    IF oldUniqueId \notin DOMAIN G.nodes THEN G
    ELSE [G EXCEPT !.nodes = Del(@, oldUniqueId)]

renameNodeEnd(G, node, oldUniqueId, newUniqueId, newFilePath) ==
    IF node = 0 THEN G
    ELSE LET G1 == [G EXCEPT !.nodes = Put(@, newUniqueId, node)]
             G2 == IF oldUniqueId \in DOMAIN G1.colorPulseData
                   THEN [G1 EXCEPT !.colorPulseData =
                            Put(Del(@, oldUniqueId), newUniqueId,
                                @[oldUniqueId])]
                   ELSE G1
             G3 == [G2 EXCEPT !.nodeFilePaths = Del(@, oldUniqueId)]
             G4 == IF newFilePath # NoPath
                   THEN [G3 EXCEPT !.nodeFilePaths =
                            Put(@, newUniqueId, newFilePath)]
                   ELSE G3
         IN  removeLabelForNode(G4, oldUniqueId)

\* The settings of the loaded graphs: without and with the freeze policy.
LoopSettings == {SettingsSlow, SettingsLight}

\* The loaded graphs: at most two of the notes, with a link from "x" to "y"
\* or none, and the loop started.
LoopInit ==
    /\ \E ids \in SUBSET StoreIds, pairs \in {<< >>, <<<<"x", "y">>>>},
          settings \in LoopSettings :
          /\ Cardinality(ids) < MaxMeshes
          /\ LET G == Linked(Scene(ids, settings, FlowPlace, Zero3),
                             pairs)
             IN  /\ nodes = G.nodes
                 /\ meshes = G.meshes
                 /\ links = G.links
                 /\ nodeFilePaths = G.nodeFilePaths
                 /\ colorPulseData = G.colorPulseData
                 /\ labels = G.labels
                 /\ nodeToUniqueId = G.nodeToUniqueId
                 /\ currentSettings = G.currentSettings
                 /\ forces = G.forces
                 /\ maxSpeed = G.maxSpeed
                 /\ freeze = G.freeze
                 /\ frozenNodes = G.frozenNodes
                 /\ isRunning = G.isRunning
                 /\ animationId = G.animationId
                 /\ animationFrames = G.animationFrames
                 /\ particleSystem = G.particleSystem
                 /\ prev = G
    /\ NewView
    /\ gravityGraph = TRUE
    /\ timer = "none"
    /\ files = << >> /\ vault = {} /\ content = << >>
    /\ runtime = NewWindow
    /\ lastOp = Op("new", "", "", NoPath)
    /\ prevIds = NewIds
    /\ calls = 0

\* A handler is taken up, runs up to G and goes on as `handler`.
Begin(op, G, handler) ==
    /\ Dispatch
    /\ calls < MaxCalls
    /\ calls' = calls + 1
    /\ prev' = Graph
    /\ lastOp' = op
    /\ SetGraph(G)
    /\ runtime' = [runtime EXCEPT !.running = handler]
    /\ UNCHANGED <<viewVars, vaultVars, prevIds>>

\* The handler on the stack runs to its end, G, and returns.
End(op, G) ==
    /\ prev' = Graph
    /\ lastOp' = op
    /\ SetGraph(G)
    /\ runtime' = [runtime EXCEPT !.running = Idle]
    /\ UNCHANGED <<viewVars, vaultVars, prevIds, calls>>

AddNodeBegin(uniqueId, filePath, phase) ==
    /\ FreeMeshes(Graph) # {}
    /\ Begin(Op("addNode", uniqueId, "", filePath),
             addNodeBegin(Graph, uniqueId, filePath),
             [op |-> "addNode", uniqueId |-> uniqueId, phase |-> phase])

AddNodeEnd ==
    /\ runtime.running.op = "addNode"
    /\ End(Op("addNodeEnd", runtime.running.uniqueId, "", NoPath),
           addNodeEnd(Graph, runtime.running.uniqueId, runtime.running.phase))

RemoveNodeBegin(uniqueId) ==
    Begin(Op("removeNode", uniqueId, "", NoPath),
          removeNodeBegin(Graph, uniqueId),
          [op |-> "removeNode", uniqueId |-> uniqueId])

RemoveNodeEnd ==
    /\ runtime.running.op = "removeNode"
    /\ End(Op("removeNodeEnd", runtime.running.uniqueId, "", NoPath),
           removeNodeEnd(Graph, runtime.running.uniqueId))

RenameNodeBegin(oldUniqueId, newUniqueId, newFilePath) ==
    Begin(Op("renameNode", oldUniqueId, newUniqueId, newFilePath),
          renameNodeBegin(Graph, oldUniqueId),
          [op |-> "renameNode", oldUniqueId |-> oldUniqueId,
           newUniqueId |-> newUniqueId, newFilePath |-> newFilePath,
           node |-> GetOr(nodes, oldUniqueId, 0)])

RenameNodeEnd ==
    /\ runtime.running.op = "renameNode"
    /\ LET call == runtime.running
       IN  End(Op("renameNodeEnd", call.oldUniqueId, call.newUniqueId,
                  call.newFilePath),
               renameNodeEnd(Graph, call.node, call.oldUniqueId,
                             call.newUniqueId, call.newFilePath))

\* A frame that animate has requested is taken up: animate up to the
\* request of the next frame.
TickBegin ==
    /\ Dispatch
    /\ calls < MaxTicks
    /\ \E frame \in animationFrames :
          LET G == [Graph EXCEPT !.animationFrames = @ \ {frame}]
              after == animate(G)
              ran == after # G
          IN  /\ prev' = G
              /\ lastOp' = Op(IF ran THEN "animate" ELSE "return",
                              "", "", NoPath)
              /\ SetGraph([after EXCEPT
                              !.animationId = G.animationId,
                              !.animationFrames = G.animationFrames])
              /\ runtime' = IF ran
                            THEN [runtime EXCEPT !.running =
                                     [op |-> "animate",
                                      during |-> runtime.running]]
                            ELSE runtime
    /\ calls' = calls + 1
    /\ UNCHANGED <<viewVars, vaultVars, prevIds>>

\* The last statement of animate.
TickEnd ==
    /\ runtime.running.op = "animate"
    /\ prev' = Graph
    /\ lastOp' = Op("requestAnimationFrame", "", "", NoPath)
    /\ SetGraph(requestAnimationFrame(Graph))
    /\ runtime' = [runtime EXCEPT !.running = runtime.running.during]
    /\ UNCHANGED <<viewVars, vaultVars, prevIds, calls>>

\* stop(), called by a handler of its own (onClose) or by the handler on
\* the stack.
Stop ==
    /\ prev' = Graph
    /\ lastOp' = Op("stop", "", "", NoPath)
    /\ SetGraph(stop(Graph))
    /\ UNCHANGED <<viewVars, vaultVars, runtime, prevIds, calls>>

\* start(camera)
Start ==
    /\ Dispatch
    /\ Call(Op("start", "", "", NoPath), start(Graph))

LoopNext ==
    \/ \E id \in StoreIds, phase \in Phases :
          AddNodeBegin(id, StorePath(id), phase)
    \/ AddNodeEnd
    \/ \E id \in StoreIds : RemoveNodeBegin(id)
    \/ RemoveNodeEnd
    \/ \E old \in StoreIds, new \in StoreIds :
          RenameNodeBegin(old, new, StorePath(new))
    \/ RenameNodeEnd
    \/ \E a \in StoreIds, b \in StoreIds : Dispatch /\ AddLink(a, b)
    \/ \E a \in StoreIds, b \in StoreIds : Dispatch /\ RemoveLink(a, b)
    \/ TickBegin
    \/ TickEnd
    \/ Stop
    \/ Start

LoopSpec == LoopInit /\ [][LoopNext]_vars

C28_StopHaltsTheLoop ==
    /\ lastOp.op = "stop" =>
          /\ ~isRunning
          /\ nodes = prev.nodes
          /\ \A id \in DOMAIN nodes :
                /\ Position(Graph, id) = Position(prev, id)
                /\ Velocity(Graph, id) = Velocity(prev, id)
    /\ Ticked => prev.isRunning

\* A frame requested by a tick during which stop() was called is taken up
\* and returns at once.
C28_Witness ==
    /\ lastOp.op = "return"
    /\ ~isRunning
    /\ nodes # EmptyMap
    /\ meshes = prev.meshes

(***************************************************************************)
(* The consistency of the maps of the store.                               *)
(***************************************************************************)
\* C31: after any sequence of addNode, removeNode and renameNode the
\* reverse map nodeToUniqueId agrees with the node map: for every node of
\* the node map it holds the id under which the node is stored, which is
\* the id the connection count of a tick is kept under.
C31_ReverseMapFollowsNodes ==
    \A id \in DOMAIN nodes :
        /\ nodes[id] \in DOMAIN nodeToUniqueId
        /\ nodeToUniqueId[nodes[id]] = id

\* C32: in every reachable state both endpoints of every link of the store
\* are nodes of the node map: after any sequence of addNode, removeNode,
\* addLink, removeLink and renameNode no link has an endpoint that has been
\* removed or replaced.
C32_LinksJoinLiveNodes ==
    \A i \in DOMAIN links :
        /\ links[i].from \in Range(nodes)
        /\ links[i].to \in Range(nodes)

\* C33: in every reachable state the frozen set holds ids of nodes of the
\* node map only: removeNode and renameNode leave no entry for the old id,
\* so that a node added later under an id that was frozen starts Active,
\* and a frozen node that is renamed is frozen under its new id.
\* Stated of the states between the handlers.
C33_FrozenIdsAreLive ==
    Dispatch =>
        /\ frozenNodes \subseteq DOMAIN nodes
        /\ (lastOp.op = "renameNodeEnd" /\ lastOp.a \in prev.frozenNodes
               /\ lastOp.b \in DOMAIN nodes)
              => lastOp.b \in frozenNodes

(***************************************************************************)
(* The identity resolver and the events of the vault.                      *)
(***************************************************************************)
\* The paths with an id that have the basename `basename`.
Registered(basename) ==
    {path \in DOMAIN pathToUniqueId : Basename(path) = basename}

\* C34: in every reachable state the counter of a basename is the number
\* of the registered paths with that basename (no entry standing for 0): a
\* rename of a note away from a basename lowers the counter of that
\* basename as a deletion does.
C34_CounterCountsRegisteredPaths ==
    \A path \in ViewPaths :
        GetOr(nodeNameCounter, Basename(path), 0)
            = Cardinality(Registered(Basename(path)))

\* The text of note `file` has a link that resolves to note `target`.
LinksTo(file, target) ==
    \E i \in DOMAIN content[file] :
        getFirstLinkpathDest(files, vault, content[file][i]) = target

\* The id of an existing note, "" if it has none.
IdOf(file) == getUniqueIdFromPath(Ids, files[file])

\* The note has a node.
HasNode(file) == IdOf(file) # "" /\ hasNode(Graph, IdOf(file))

\* The store holds a link between the nodes of two notes.
Joined(file, other) ==
    \E i \in DOMAIN links :
        LinkJoins(links[i], nodes[IdOf(file)], nodes[IdOf(other)])

\* The last step was checkForNewLinks, run to its end for a note with an id.
Reconciled == lastOp.op = "checkForNewLinks" /\ lastOp.a # ""

\* C35: once checkForNewLinks has reconciled a modify event of note A, the
\* store holds a link between A and another note B, both with a node,
\* exactly when the text of A links to B or the text of B links to A; so
\* the link of two notes that link to each other stays when only A's
\* reference is removed.
C35_LinkIffEitherNoteRefers ==
    Reconciled =>
        \A A \in vault, B \in vault :
            (files[A] = lastOp.path /\ B # A /\ HasNode(A) /\ HasNode(B))
                => (Joined(A, B) <=> (LinksTo(A, B) \/ LinksTo(B, A)))

\* The gradual loading has added its last node and its last link.
LoadingCompleted == timer = "none"

\* The notes captured by onOpen that exist no more, and whose path no note
\* has taken since.
DeletedWhileLoading ==
    {f \in Range(allFiles) : f \notin vault /\ files[f] \notin ExistingPaths}

\* The ids of the nodes of the file path `path`.
NodesOfPath(path) ==
    {id \in DOMAIN nodes : GetOr(nodeFilePaths, id, NoPath) = path}

\* C36: a note that is deleted while the gradual loading is in progress,
\* after onOpen has given it an id and before the timer chain has added its
\* node, has no node and no id once the loading has completed.
C36_DeletedNoteIsNotLoaded ==
    LoadingCompleted =>
        \A f \in DeletedWhileLoading :
            /\ NodesOfPath(files[f]) = {}
            /\ files[f] \notin DOMAIN pathToUniqueId
            /\ files[f] \notin Range(uniqueIdToPath)

(***************************************************************************)
(* The create handler across its await.  The view was opened on an empty   *)
(* vault, its scene was built and a first note was created: the run starts *)
(* with onNewNoteCreated suspended on vault.read, and counts the vault     *)
(* events delivered from then on.                                          *)
(***************************************************************************)
\* The store after the callback of the 100 ms timeout of onOpen.
SceneGraph == start(updateSettingsParameters(NewGraph, SettingsDark))

\* The store and the resolver after onNewNoteCreated has run up to its
\* await for a note at `path`.
CreatedIds(path) == generateUniqueNodeId(NewIds, Basename(path), path)

CreatedGraph(path) == addNode(SceneGraph, CreatedIds(path).uniqueId, path, 0)

SuspendedInit ==
    \E path \in ViewPaths :
        /\ files = <<path>>
        /\ content \in [1..1 -> ContentValues]
        /\ vault = {1}
        /\ nodes = CreatedGraph(path).nodes
        /\ meshes = CreatedGraph(path).meshes
        /\ links = CreatedGraph(path).links
        /\ nodeFilePaths = CreatedGraph(path).nodeFilePaths
        /\ colorPulseData = CreatedGraph(path).colorPulseData
        /\ labels = CreatedGraph(path).labels
        /\ nodeToUniqueId = CreatedGraph(path).nodeToUniqueId
        /\ currentSettings = CreatedGraph(path).currentSettings
        /\ forces = CreatedGraph(path).forces
        /\ maxSpeed = CreatedGraph(path).maxSpeed
        /\ freeze = CreatedGraph(path).freeze
        /\ frozenNodes = CreatedGraph(path).frozenNodes
        /\ isRunning = CreatedGraph(path).isRunning
        /\ animationId = CreatedGraph(path).animationId
        /\ animationFrames = CreatedGraph(path).animationFrames
        /\ particleSystem = CreatedGraph(path).particleSystem
        /\ pathToUniqueId = CreatedIds(path).ids.pathToUniqueId
        /\ uniqueIdToPath = CreatedIds(path).ids.uniqueIdToPath
        /\ nodeNameCounter = CreatedIds(path).ids.nodeNameCounter
        /\ previousLinks = EmptyMap
        /\ gravityGraph = TRUE
        /\ allFiles = << >>
        /\ allLinks = << >>
        /\ currentNodeIndex = 0
        /\ currentLinkIndex = 0
        /\ timer = "startNodeAddition"
        /\ cachePending = FALSE
        /\ reading = {[file |-> 1, uniqueId |-> CreatedIds(path).uniqueId]}
        /\ runtime = NewWindow
        /\ lastOp = Op("onNewNoteCreated", CreatedIds(path).uniqueId, "", path)
        /\ prev = SceneGraph
        /\ prevIds = NewIds
        /\ calls = 0

SuspendedNext ==
    \/ \E phase \in ViewPhases, position \in ViewPositions,
          velocity \in RandomVelocities :
          AddNextNode(phase, position, velocity)
    \/ AddNextLink
    \/ \E path \in ViewPaths, text \in ContentValues, phase \in ViewPhases :
          OnNewNoteCreated(path, text, phase)
    \/ \E call \in reading, position \in ViewPositions, resolved \in BOOLEAN :
          OnNewNoteCreatedRead(call, position, resolved)
    \/ \E file \in Files, text \in ContentValues :
          CheckForNewLinks(file, text)
    \/ \E file \in Files : OnNoteDeleted(file)
    \/ \E file \in Files, newPath \in ViewPaths : OnNoteRenamed(file, newPath)

SuspendedSpec == SuspendedInit /\ [][SuspendedNext]_vars

\* The create handler has just finished for a note that was deleted while
\* the handler was suspended on vault.read, and no note has taken the path
\* since.
ResumedAfterDelete ==
    /\ lastOp.op = "onNewNoteCreatedRead"
    /\ lastOp.path \notin ExistingPaths

\* C37: when a delete event for a note arrives while the create handler of
\* that note is suspended on its read, then after both handlers have
\* finished the note has no node and no identity mapping, and the resumed
\* handler has added neither a node nor a link.
C37_DeletedDuringCreateStaysOut ==
    ResumedAfterDelete =>
        /\ NodesOfPath(lastOp.path) = {}
        /\ lastOp.path \notin DOMAIN pathToUniqueId
        /\ nodes = prev.nodes
        /\ links = prev.links

(***************************************************************************)
(* Closing the view while it loads the graph.                              *)
(***************************************************************************)
\* onClose.  Before the callback of the 100 ms timeout of onOpen has
\* created the renderer, this.renderer.domElement throws and the cleanup
\* after it is not reached.  nodeAdditionTimer holds the timeout of the
\* node or link chain; the delayed starts of the two chains are not kept
\* in it.
OnClose ==
    /\ timer # "onOpen"
    /\ ~runtime.closed
    /\ runtime' = [runtime EXCEPT !.closed = TRUE]
    /\ prev' = Graph
    /\ prevIds' = Ids
    /\ lastOp' = Op("onClose", "", "", NoPath)
    /\ IF ~gravityGraph
       THEN /\ SetGraph(Graph)
            /\ SetIds(Ids)
            /\ UNCHANGED <<timer, previousLinks>>
       ELSE /\ SetGraph(stop([Graph EXCEPT !.labels = {}]))
            /\ timer' = IF timer \in {"addNextNode", "addNextLink"}
                        THEN "none" ELSE timer
            /\ SetIds(NewIds)
            /\ previousLinks' = EmptyMap
    /\ UNCHANGED <<gravityGraph, loadVars, cachePending, reading, vaultVars,
                   calls>>

CloseNext ==
    \/ OnOpen
    \/ InitializeLinkCache
    \/ \E settings \in ViewSettings : SceneReady(settings)
    \/ \E phase \in ViewPhases, position \in ViewPositions,
          velocity \in RandomVelocities :
          AddNextNode(phase, position, velocity)
    \/ AddNextLink
    \/ OnClose

CloseSpec == Init /\ [][CloseNext]_vars

\* C38: once onClose has run, no timer callback of the gradual loading adds
\* a node or a link to the graph.
C38_NothingLoadedAfterClose ==
    (runtime.closed /\ lastOp.op \in {"scene", "addNextNode", "addNextLink"})
        => /\ nodes = prev.nodes
           /\ links = prev.links

(***************************************************************************)
(* The frames of the physics loop.                                         *)
(***************************************************************************)
\* C39: at most one tick of the physics loop is scheduled at any time,
\* also after start() was called while the loop was running and after
\* stop() followed by start(): no animation frame runs more than one tick.
C39_OneTickLoopScheduled ==
    Cardinality(animationFrames) <= 1

(***************************************************************************)
(* The slots of the particle pool.                                         *)
(***************************************************************************)
\* The slots that the particles in flight hold.
HeldSlots(PS) == {PS.particles[i].mesh : i \in DOMAIN PS.particles}

\* C40: in every reachable state a slot of the pool is bound to at most one
\* particle in flight, and the visible slots are exactly the slots that a
\* particle in flight holds, whatever the order of the spawns, the frames
\* that retire particles and the changes of maxParticles that clear them.
C40_SlotsMatchParticles ==
    /\ \A i \in DOMAIN particleSystem.particles,
          j \in DOMAIN particleSystem.particles :
          particleSystem.particles[i].mesh = particleSystem.particles[j].mesh
              => i = j
    /\ particleSystem.particlePool.visible = HeldSlots(particleSystem)
    /\ HeldSlots(particleSystem) \subseteq 1..particleSystem.particlePool.size

\* A frame has retired a particle and hidden its slot while another
\* particle stays in flight in its own slot.
C40_Witness ==
    /\ Updated
    /\ Len(prev.particleSystem.particles) > Len(particleSystem.particles)
    /\ particleSystem.particles # << >>
    /\ HeldSlots(prev.particleSystem) \ HeldSlots(particleSystem) # {}
====
